---- MODULE Spec2Model ----
(***************************************************************************)
(* Thinky3D: validation, crash isolation and budgeted error correction of  *)
(* generated simulation code.                                              *)
(*                                                                         *)
(*   SpecFix      services/geminiService: ERROR_CORRECTION_BUDGET and      *)
(*                fixSimulationCodeWithPatch (one attempt in detail)       *)
(*   SpecSandbox  components/ThreeSandbox: GeneratedScene, the error       *)
(*                boundary, the useFrame / event handler wrappers          *)
(*   SpecApp      App.handleSimulationError and its retry state            *)
(*   SpecE2E      App together with the sandbox of the section it shows    *)
(*   SpecValidator utils/codeValidator: validateSimulationCode on scopes   *)
(*   SpecHoist    services/geminiService: hoistConditionalHooks, one loop   *)
(*                iteration per step (SpecHoistFair: with fairness)         *)
(*   SpecSanitize services/geminiService: sanitizeSimulationCode            *)
(*   SpecLoader   App: the background prefetch effect and handleLoadSection *)
(*   SpecEdits    services/geminiService: applySimulationEdits on its own   *)
(*                                                                         *)
(* Code text is modelled as a sequence of lines; every line is one of the  *)
(* statements of Lines below.                                              *)
(***************************************************************************)
EXTENDS Integers, Sequences, FiniteSets, TLC

VARIABLES
  ERROR_CORRECTION_BUDGET,  \* [maxCalls, callsUsed, perSection, maxPerSection]
  fix,                      \* the running fixSimulationCodeWithPatch call
  fixResult,                \* how the last call settled
  lastOp,                   \* the last operation on the budget (history)
  llmAttempts,              \* attempts of this session that reached callLLM (history)
  admitted,                 \* admitted attempts of this session per unit whose code
                            \* was to be corrected (history)
  sandbox,                  \* ThreeSandbox: props, React state, refs
  reports,                  \* onError invocations for the current code (history)
  app,                      \* App state: active section, content, retry state
  inflight,                 \* correction requests awaiting the collaborator
  issued,                   \* requests that reached the collaborator, per unit (history)
  program,                  \* the parsed program handed to the validator
  validationResult,         \* what validateSimulationCode returned for it
  hoist,                    \* the running hoistConditionalHooks call
  sanitizer,                \* sanitizeSimulationCode: its input and its output
  patch,                    \* applySimulationEdits: its arguments and its result
  created,                  \* safeCreateElement: its arguments and the element made
  hosted,                   \* sandboxes mounted together and simErrorHandlerRef
  loader                    \* App state: course content, generatingSections, fetches

budgetVars == <<ERROR_CORRECTION_BUDGET, lastOp, llmAttempts, admitted>>
fixVars == <<fix, fixResult>>
sandboxVars == <<sandbox, reports>>
appVars == <<app, inflight, issued>>
validatorVars == <<program, validationResult>>
callVars == <<patch, created, hosted>>
textVars == <<hoist, sanitizer, callVars>>
vars == <<ERROR_CORRECTION_BUDGET, fix, fixResult, lastOp, llmAttempts, admitted,
          sandbox, reports, app, inflight, issued, program, validationResult,
          hoist, sanitizer, patch, created, hosted, loader>>

----------------------------------------------------------------------------
(* Bounds *)

MaxSections == 2      \* section ids 1..MaxSections
MaxCodeLen == 2       \* lines of a code text handed to the fixer
MaxEdits == 2         \* edits in one collaborator response
CallsCap == 4         \* callsUsed is not pushed beyond this by the model
MaxVersions == 3      \* code versions a sandbox is given
ReportCap == 2        \* onError invocations counted per version and kind

MaxCourseSections == 3  \* sections of a syllabus
MaxFetches == 2       \* fetchFullSectionData calls in flight
MaxHosts == 2         \* ThreeSandbox instances mounted at the same time

Units == 1..MaxSections
Undefined == 0        \* the omitted sectionId argument

----------------------------------------------------------------------------
(* Code text *)

UseX == "x;"
DeclX == "const x = 1;"
ImportX == "import x from 'm';"
Blank == ""
Lines == {UseX, DeclX, ImportX, Blank}

RECURSIVE SeqsUpTo(_, _)
SeqsUpTo(S, n) ==
  IF n = 0 THEN {<<>>}
  ELSE LET shorter == SeqsUpTo(S, n - 1)
       IN shorter \cup {Append(s, e) : s \in {t \in shorter : Len(t) = n - 1}, e \in S}

(* the texts handed to the fixer; a blank line arises from sanitizing only *)
Codes == SeqsUpTo(Lines \ {Blank}, MaxCodeLen) \ {<<>>}

(* String.prototype.includes on line sequences *)
StartsWithAt(code, pat, i) ==
  /\ i + Len(pat) - 1 <= Len(code)
  /\ \A k \in 1..Len(pat) : code[i + k - 1] = pat[k]

Includes(code, pat) ==
  \E i \in 1..(Len(code) + 1) : StartsWithAt(code, pat, i)

(* String.prototype.replaceAll: leftmost, non-overlapping occurrences *)
RECURSIVE ReplaceAllFrom(_, _, _, _)
ReplaceAllFrom(code, pat, rep, i) ==
  IF i > Len(code) THEN <<>>
  ELSE IF Len(pat) > 0 /\ StartsWithAt(code, pat, i)
       THEN rep \o ReplaceAllFrom(code, pat, rep, i + Len(pat))
       ELSE <<code[i]>> \o ReplaceAllFrom(code, pat, rep, i + 1)

ReplaceAll(code, pat, rep) == ReplaceAllFrom(code, pat, rep, 1)

----------------------------------------------------------------------------
(* utils/codeValidator: validateSimulationCode on single-scope programs *)

KNOWN_GLOBALS == {"React", "THREE", "useFrame", "useThree", "Text", "params"}

DeclaredName(line) == IF line = DeclX THEN "x" ELSE "none"
UsedName(line) == IF line \in {UseX, ImportX} THEN "x" ELSE "none"

UsageLines(code, name) == {i \in 1..Len(code) : UsedName(code[i]) = name}
DeclarationLines(code, name) == {i \in 1..Len(code) : DeclaredName(code[i]) = name}

SetMin(S) == CHOOSE m \in S : \A o \in S : m <= o
SetMax(S) == CHOOSE m \in S : \A o \in S : m >= o

UsedNames(code) == {UsedName(code[i]) : i \in 1..Len(code)} \ {"none"}

validateSimulationCode(code) ==
  LET undefinedNames == {n \in UsedNames(code) :
                           /\ n \notin KNOWN_GLOBALS
                           /\ DeclarationLines(code, n) = {}}
      errors == {[type |-> "undefined", variable |-> n,
                  line |-> SetMin(UsageLines(code, n))] : n \in undefinedNames}
      tdzNames == {n \in UsedNames(code) :
                     /\ n \notin KNOWN_GLOBALS
                     /\ DeclarationLines(code, n) # {}
                     /\ \E u \in UsageLines(code, n) :
                          u < SetMax(DeclarationLines(code, n))}
  IN [valid |-> errors = {}, errors |-> errors, warnings |-> tdzNames]

----------------------------------------------------------------------------
(* services/geminiService: sanitizeSimulationCode on the lines of Lines *)

SanitizeLine(line) == IF line = ImportX THEN Blank ELSE line

sanitizeSimulationCode(code) == [i \in 1..Len(code) |-> SanitizeLine(code[i])]

----------------------------------------------------------------------------
(* services/geminiService: the session budget *)

BudgetDefault ==
  [maxCalls |-> 5, callsUsed |-> 0, perSection |-> [u \in Units |-> 0],
   maxPerSection |-> 1]

initErrorCorrectionBudget(b, sectionCount) ==
  [b EXCEPT !.maxCalls = sectionCount,
            !.callsUsed = 0,
            !.perSection = [u \in Units |-> 0]]

(* a plausible slip: the session counter is bumped before the per-section check *)
consumeErrorCorrectionBudget_CountsFirst(b, sectionId) ==
  LET b0 == [b EXCEPT !.callsUsed = @ + 1]
  IN IF sectionId # Undefined /\ b.perSection[sectionId] >= b.maxPerSection
     THEN [budget |-> b0, threw |-> TRUE]
     ELSE LET b1 == IF sectionId # Undefined
                    THEN [b0 EXCEPT !.perSection[sectionId] = @ + 1]
                    ELSE b0
          IN [budget |-> b1, threw |-> b1.callsUsed > b1.maxCalls]

(* a plausible slip: the session limit is logged but not enforced *)
consumeErrorCorrectionBudget_NoSessionCap(b, sectionId) ==
  IF sectionId # Undefined /\ b.perSection[sectionId] >= b.maxPerSection
  THEN [budget |-> b, threw |-> TRUE]
  ELSE LET b1 == IF sectionId # Undefined
                 THEN [b EXCEPT !.perSection[sectionId] = @ + 1]
                 ELSE b
           b2 == [b1 EXCEPT !.callsUsed = @ + 1]
       IN [budget |-> b2, threw |-> FALSE]

(* a plausible slip: a rejected call gives its session slot back *)
consumeErrorCorrectionBudget_Refunds(b, sectionId) ==
  IF sectionId # Undefined /\ b.perSection[sectionId] >= b.maxPerSection
  THEN [budget |-> [b EXCEPT !.callsUsed = IF @ > 0 THEN @ - 1 ELSE 0],
        threw |-> TRUE]
  ELSE LET b1 == IF sectionId # Undefined
                 THEN [b EXCEPT !.perSection[sectionId] = @ + 1]
                 ELSE b
           b2 == [b1 EXCEPT !.callsUsed = @ + 1]
       IN [budget |-> b2, threw |-> b2.callsUsed > b2.maxCalls]

(* a plausible slip: the per-section limit is logged but not enforced *)
consumeErrorCorrectionBudget_NoSectionCap(b, sectionId) ==
  LET b1 == IF sectionId # Undefined
            THEN [b EXCEPT !.perSection[sectionId] = @ + 1]
            ELSE b
      b2 == [b1 EXCEPT !.callsUsed = @ + 1]
  IN [budget |-> b2, threw |-> b2.callsUsed > b2.maxCalls]

(* a plausible slip: > for >= in the per-section check *)
consumeErrorCorrectionBudget_OffByOne(b, sectionId) ==
  IF sectionId # Undefined /\ b.perSection[sectionId] > b.maxPerSection
  THEN [budget |-> b, threw |-> TRUE]
  ELSE LET b1 == IF sectionId # Undefined
                 THEN [b EXCEPT !.perSection[sectionId] = @ + 1]
                 ELSE b
           b2 == [b1 EXCEPT !.callsUsed = @ + 1]
       IN [budget |-> b2, threw |-> b2.callsUsed > b2.maxCalls]

(* the budget after the call, and whether the call threw *)
consumeErrorCorrectionBudget(b, sectionId) ==
  IF sectionId # Undefined /\ b.perSection[sectionId] >= b.maxPerSection
  THEN [budget |-> b, threw |-> TRUE]
  ELSE LET b1 == IF sectionId # Undefined
                 THEN [b EXCEPT !.perSection[sectionId] = @ + 1]
                 ELSE b
           b2 == [b1 EXCEPT !.callsUsed = @ + 1]
       IN [budget |-> b2, threw |-> b2.callsUsed > b2.maxCalls]

----------------------------------------------------------------------------
(* services/geminiService: search-and-replace patches *)

Edit(old, new) == [old_code |-> old, new_code |-> new]

(* the edits the collaborator answers with *)
EditPool ==
  {Edit(<<UseX>>, <<DeclX>>), Edit(<<DeclX>>, <<UseX>>),
   Edit(<<UseX>>, <<ImportX>>)}

Responses == SeqsUpTo(EditPool, MaxEdits)

(* a plausible slip: the loop is left at the first edit that does not match *)
RECURSIVE applySimulationEdits_StopsAtFailure(_, _)
applySimulationEdits_StopsAtFailure(code, edits) ==
  IF edits = <<>> THEN [newCode |-> code, failedEdits |-> <<>>]
  ELSE LET edit == Head(edits)
       IN IF ~Includes(code, edit.old_code)
          THEN [newCode |-> code, failedEdits |-> <<edit>>]
          ELSE applySimulationEdits_StopsAtFailure(
                 ReplaceAll(code, edit.old_code, edit.new_code), Tail(edits))

(* lines 2560-2578 *)
RECURSIVE applySimulationEdits(_, _)
applySimulationEdits(code, edits) ==
  IF edits = <<>> THEN [newCode |-> code, failedEdits |-> <<>>]
  ELSE LET edit == Head(edits)
       IN IF ~Includes(code, edit.old_code)
          THEN LET rest == applySimulationEdits(code, Tail(edits))
               IN [newCode |-> rest.newCode,
                   failedEdits |-> <<edit>> \o rest.failedEdits]
          ELSE applySimulationEdits(
                 ReplaceAll(code, edit.old_code, edit.new_code), Tail(edits))

(* a plausible slip: the retry branch is never taken *)
NeedsRetry_Never(failedEdits) == FALSE

(* History: the search strings that are absent from the text at the moment   *)
(* their edit is processed, in order                                         *)
RECURSIVE Unmatched(_, _)
Unmatched(code, edits) ==
  IF edits = <<>> THEN <<>>
  ELSE IF Includes(code, Head(edits).old_code)
       THEN Unmatched(ReplaceAll(code, Head(edits).old_code, Head(edits).new_code),
                      Tail(edits))
       ELSE <<Head(edits).old_code>> \o Unmatched(code, Tail(edits))

(* fixSimulationCodeWithPatch, line 2732: a retry is requested *)
NeedsRetry(failedEdits) == Len(failedEdits) > 0

(* line 2742: the old_code strings the thrown error lists *)
UnmatchedNames(failedEdits) == [i \in 1..Len(failedEdits) |-> failedEdits[i].old_code]

NoCode == <<"<none>">>

FixIdle ==
  [pc |-> "idle", sectionId |-> Undefined, currentCode |-> NoCode,
   newCode |-> NoCode, requests |-> 0, firstFailed |-> FALSE]

NoResult ==
  [status |-> "none", reason |-> "", code |-> NoCode, names |-> <<>>,
   requests |-> 0, firstFailed |-> FALSE, patched |-> NoCode,
   retryUnmatched |-> <<>>]

Threw(reason, names, requests, firstFailed, patched, retryUnmatched) ==
  [status |-> "threw", reason |-> reason, code |-> NoCode, names |-> names,
   requests |-> requests, firstFailed |-> firstFailed, patched |-> patched,
   retryUnmatched |-> retryUnmatched]

(* a plausible slip: the patched text is returned instead of the sanitized one *)
RevalidatePatched_ReturnsRaw(newCode, requests, firstFailed, retryUnmatched) ==
  LET cleanCode == sanitizeSimulationCode(newCode)
      validation == validateSimulationCode(cleanCode)
  IN IF ~validation.valid
     THEN Threw("validation", <<>>, requests, firstFailed, newCode,
                retryUnmatched)
     ELSE [status |-> "returned", reason |-> "", code |-> newCode,
           names |-> <<>>, requests |-> requests, firstFailed |-> firstFailed,
           patched |-> newCode, retryUnmatched |-> retryUnmatched]

(* lines 2749-2783: sanitize the patched code, validate it, return or throw *)
RevalidatePatched(newCode, requests, firstFailed, retryUnmatched) ==
  LET cleanCode == sanitizeSimulationCode(newCode)
      validation == validateSimulationCode(cleanCode)
  IN IF ~validation.valid
     THEN Threw("validation", <<>>, requests, firstFailed, newCode,
                retryUnmatched)
     ELSE [status |-> "returned", reason |-> "", code |-> cleanCode,
           names |-> <<>>, requests |-> requests, firstFailed |-> firstFailed,
           patched |-> newCode, retryUnmatched |-> retryUnmatched]

----------------------------------------------------------------------------
(* Initial values *)

NoOp ==
  [op |-> "none", sectionId |-> Undefined, threw |-> FALSE, sent |-> FALSE,
   before |-> BudgetDefault, attemptsBefore |-> 0]

Kinds == {"validation", "render", "frame", "event", "missing"}

NoDeps == [code |-> 0, onError |-> 0]

(* ThreeSandbox before its first render: the boundary's constructor (line   *)
(* 16), the module-level simErrorHandlerRef (line 306)                       *)
SandboxInit(valid) ==
  [code |-> [id |-> 1, valid |-> valid],  \* the code prop
   onErrorId |-> 1,                       \* identity of the onError prop
   dirty |-> TRUE,                        \* a render is scheduled
   pendingEffects |-> FALSE,              \* committed, passive effects not flushed
   mounted |-> FALSE,                     \* GeneratedScene is mounted
   validationState |-> "validating",
   validationDeps |-> NoDeps,             \* deps of the validation effect's last run
   resetDeps |-> 0,                       \* deps of the reset effect's last run
   useFrameErrorRef |-> FALSE,
   fired |-> FALSE,                       \* simErrorHandlerRef.fired
   live |-> 0,                            \* version whose Component output is committed
   handlers |-> FALSE,                    \* its elements carry wrapped handlers
   hasError |-> FALSE,
   errorReported |-> FALSE,
   boundaryCode |-> 1,                    \* the boundary's props.code at its last commit
   validatedOk |-> {},                    \* versions the validator judged valid (history)
   runs |-> {}]                           \* executions of generated code (history)

(* interactiveConfig.code of a section: whose it is and which version *)
CodeOf(unit, ver) == [unit |-> unit, ver |-> ver]
NoContent == CodeOf(Undefined, 0)

NoReport == [op |-> "none", unit |-> Undefined, doneBefore |-> FALSE,
             pendingBefore |-> FALSE, sent |-> FALSE]

(* App after the syllabus and the sections' content were generated: the     *)
(* course overview, useState initial values of lines 56-57 and 94-104       *)
AppInit ==
  [appState |-> "COURSE_OVERVIEW",
   activeSectionId |-> Undefined,
   activeContent |-> NoContent,
   course |-> [u \in Units |-> CodeOf(u, 0)],
   simulationRetryState |-> [isRetrying |-> FALSE, hasRetried |-> FALSE,
                             sectionId |-> Undefined, error |-> FALSE],
   done |-> {},            \* units whose correction attempt has settled (history)
   last |-> NoReport]      \* the last failure report (history)

InitBudgetPart ==
  /\ ERROR_CORRECTION_BUDGET = BudgetDefault
  /\ lastOp = NoOp
  /\ llmAttempts = 0
  /\ admitted = [u \in Units |-> 0]

InitFixPart ==
  /\ fix = FixIdle
  /\ fixResult = NoResult

InitSandboxPart ==
  /\ \E valid \in BOOLEAN : sandbox = SandboxInit(valid)
  /\ reports = [v \in 1..MaxVersions |-> [k \in Kinds |-> 0]]

InitAppPart ==
  /\ app = AppInit
  /\ inflight = {}
  /\ issued = [u \in Units |-> 0]

NoProgram == <<>>
NotValidated == [valid |-> FALSE, errors |-> <<>>, warnings |-> <<>>, ran |-> FALSE]

InitValidatorPart ==
  /\ program = NoProgram
  /\ validationResult = NotValidated

(* props given as null or undefined: no key is present *)
NoProps ==
  [given |-> FALSE, geometry |-> "absent", material |-> "absent",
   frustumCulled |-> "absent", onClick |-> "absent", position |-> "absent"]

Hosts == 1..MaxHosts
NoHandler == 0          \* simErrorHandlerRef.current is null

(* a ThreeSandbox whose generated component has not rendered yet *)
UnmountedHost ==
  [useFrameErrorRef |-> FALSE, wrapped |-> FALSE, fired |-> FALSE]

(* no hoistConditionalHooks call and no sanitizeSimulationCode call yet *)
InitTextPart ==
  /\ hoist = [code |-> <<>>, result |-> <<>>, hoistedStatements |-> <<>>,
              madeChange |-> FALSE, iterations |-> 0, pc |-> "idle",
              output |-> <<>>]
  /\ sanitizer = [code |-> <<>>, output |-> <<>>, ran |-> FALSE]
  /\ patch = [code |-> <<>>, edits |-> <<>>, newCode |-> <<>>,
              failedEdits |-> <<>>, ran |-> FALSE]
  /\ created = [type |-> "group", props |-> NoProps, children |-> <<>>,
                out |-> [type |-> "group", props |-> NoProps, children |-> <<>>],
                ran |-> FALSE]
  /\ hosted = [simErrorHandlerRef |-> [current |-> NoHandler, fired |-> FALSE],
               unit |-> [u \in Hosts |-> UnmountedHost],
               last |-> [unit |-> NoHandler, reportedTo |-> NoHandler,
                         ownFired |-> FALSE]]

CourseSections == 1..MaxCourseSections
NoCourse == <<>>        \* course is null

(* App before a topic is entered (lines 50-53) *)
InitLoaderPart ==
  loader = [appState |-> "IDLE",
            course |-> NoCourse,
            generatingSections |-> {},
            activeSectionId |-> Undefined,
            fetching |-> [s \in CourseSections |-> [prefetch |-> 0, load |-> 0]],
            prefetchPending |-> FALSE]   \* the prefetch effect is due

Init == /\ InitBudgetPart /\ InitFixPart /\ InitSandboxPart /\ InitAppPart
        /\ InitValidatorPart /\ InitTextPart /\ InitLoaderPart

----------------------------------------------------------------------------
(* services/geminiService: budget operations *)

(* initErrorCorrectionBudget(sectionCount), called after syllabus generation *)
InitBudget(sectionCount) ==
  /\ ERROR_CORRECTION_BUDGET' =
       initErrorCorrectionBudget(ERROR_CORRECTION_BUDGET, sectionCount)
  /\ lastOp' = [op |-> "init", sectionId |-> Undefined, threw |-> FALSE,
                sent |-> FALSE, before |-> ERROR_CORRECTION_BUDGET,
                attemptsBefore |-> llmAttempts]
  /\ llmAttempts' = 0
  /\ admitted' = [u \in Units |-> 0]

(* fixSimulationCodeWithPatch line 2670: the budget check that opens every  *)
(* call; when it throws the function is left before callLLM (line 2727).    *)
(* unit: the unit whose code the caller wants corrected; sectionId: the      *)
(* optional argument, the unit or Undefined                                  *)
ConsumeStep(unit, sectionId) ==
  LET r == consumeErrorCorrectionBudget(ERROR_CORRECTION_BUDGET, sectionId)
  IN /\ ERROR_CORRECTION_BUDGET.callsUsed < CallsCap
     /\ ERROR_CORRECTION_BUDGET' = r.budget
     /\ lastOp' = [op |-> "consume", sectionId |-> sectionId,
                   threw |-> r.threw, sent |-> ~r.threw,
                   before |-> ERROR_CORRECTION_BUDGET,
                   attemptsBefore |-> llmAttempts]
     /\ llmAttempts' = IF r.threw THEN llmAttempts ELSE llmAttempts + 1
     /\ admitted' = IF r.threw \/ unit = Undefined THEN admitted
                     ELSE [admitted EXCEPT ![unit] = @ + 1]

(* fixSimulationCodeWithPatch up to its first await; any number of calls    *)
(* may be awaiting their response, they share nothing but the budget        *)
RequestFix(unit, sectionId) ==
  /\ ConsumeStep(unit, sectionId)
  /\ UNCHANGED <<fixVars, sandboxVars, appVars, validatorVars, textVars, loader>>

SessionStart(sectionCount) ==
  /\ InitBudget(sectionCount)
  /\ UNCHANGED <<fixVars, sandboxVars, appVars, validatorVars, textVars, loader>>

NextBudget ==
  \/ \E n \in 0..MaxSections : SessionStart(n)
  \/ \E unit \in Units : \E sectionId \in {unit, Undefined} :
       RequestFix(unit, sectionId)

SpecBudget == Init /\ [][NextBudget]_vars

----------------------------------------------------------------------------
(* services/geminiService: one fixSimulationCodeWithPatch call, step by step *)

FixStart(sectionId, currentCode) ==
  /\ fix.pc = "idle"
  /\ ConsumeStep(sectionId, sectionId)
  /\ IF lastOp'.threw
     THEN /\ fix' = FixIdle
          /\ fixResult' = Threw("budget", <<>>, 0, FALSE, NoCode, <<>>)
     ELSE /\ fix' = [pc |-> "first", sectionId |-> sectionId,
                     currentCode |-> currentCode, newCode |-> NoCode,
                     requests |-> 1, firstFailed |-> FALSE]
          /\ fixResult' = NoResult
  /\ UNCHANGED <<sandboxVars, appVars, validatorVars, textVars, loader>>

(* callLLM rejects (network error, empty or unparsable response) *)
LLMError ==
  /\ fix.pc \in {"first", "retry"}
  /\ fix' = FixIdle
  /\ fixResult' = Threw("llm", <<>>, fix.requests, fix.firstFailed, NoCode,
                        <<>>)
  /\ UNCHANGED <<budgetVars, sandboxVars, appVars, validatorVars, textVars, loader>>

(* lines 2727-2747 and on: the first response arrives *)
FirstResponse(edits) ==
  /\ fix.pc = "first"
  /\ LET applied == applySimulationEdits(fix.currentCode, edits)
         someAbsent == Unmatched(fix.currentCode, edits) # <<>>
     IN IF NeedsRetry(applied.failedEdits)
        THEN /\ fix' = [fix EXCEPT !.pc = "retry", !.newCode = applied.newCode,
                                   !.requests = @ + 1,
                                   !.firstFailed = someAbsent]
             /\ fixResult' = NoResult
        ELSE /\ fix' = FixIdle
             /\ fixResult' = RevalidatePatched(applied.newCode, fix.requests,
                                               someAbsent, <<>>)
  /\ UNCHANGED <<budgetVars, sandboxVars, appVars, validatorVars, textVars, loader>>

(* lines 2734-2747 and on: the retry response arrives *)
RetryResponse(retryEdits) ==
  /\ fix.pc = "retry"
  /\ LET retryApply == applySimulationEdits(fix.currentCode, retryEdits)
         absent == Unmatched(fix.currentCode, retryEdits)
     IN /\ fix' = FixIdle
        /\ fixResult' =
             IF Len(retryApply.failedEdits) > 0
             THEN Threw("apply", UnmatchedNames(retryApply.failedEdits),
                        fix.requests, fix.firstFailed, NoCode, absent)
             ELSE RevalidatePatched(retryApply.newCode, fix.requests,
                                    fix.firstFailed, absent)
  /\ UNCHANGED <<budgetVars, sandboxVars, appVars, validatorVars, textVars, loader>>

NextFix ==
  \/ \E sectionId \in Units \cup {Undefined}, code \in Codes :
       FixStart(sectionId, code)
  \/ LLMError
  \/ \E edits \in Responses : FirstResponse(edits)
  \/ \E edits \in Responses : RetryResponse(edits)

SpecFix == Init /\ [][NextFix]_vars

(* applySimulationEdits(code, edits) is called on its own *)
ApplyEdits ==
  /\ ~patch.ran
  /\ \E code \in Codes, edits \in Responses :
       LET applied == applySimulationEdits(code, edits)
       IN patch' = [code |-> code, edits |-> edits, newCode |-> applied.newCode,
                    failedEdits |-> applied.failedEdits, ran |-> TRUE]
  /\ UNCHANGED <<budgetVars, fixVars, sandboxVars, appVars, validatorVars,
                 hoist, sanitizer, created, hosted, loader>>

NextEdits == ApplyEdits

----------------------------------------------------------------------------
(* Properties of the correction budget (SpecBudget) *)

B == ERROR_CORRECTION_BUDGET

PerUnitConsumed(b, u) == b.perSection[u] = b.maxPerSection

(* C3: once perSection[unit] = maxPerSection, a further correction request   *)
(* for that unit throws at once: no request reaches the collaborator and     *)
(* callsUsed is what it was before the request.                              *)
C3_PerUnitRejectionIsFree ==
  (/\ lastOp.op = "consume"
   /\ lastOp.sectionId # Undefined
   /\ PerUnitConsumed(lastOp.before, lastOp.sectionId))
  => /\ lastOp.threw
     /\ ~lastOp.sent
     /\ llmAttempts = lastOp.attemptsBefore
     /\ B.callsUsed = lastOp.before.callsUsed

C3_Witness ==
  /\ lastOp.op = "consume"
  /\ lastOp.sectionId # Undefined
  /\ PerUnitConsumed(lastOp.before, lastOp.sectionId)
  /\ lastOp.before.callsUsed > 0
  /\ lastOp.before.callsUsed < lastOp.before.maxCalls

(* C4: once maxCalls requests were admitted in the session, every further    *)
(* request, for any unit, throws before callLLM; the attempts of a session   *)
(* that reach the collaborator never exceed maxCalls.                        *)
C4_SessionCap ==
  /\ llmAttempts <= B.maxCalls
  /\ (lastOp.op = "consume" /\ lastOp.attemptsBefore >= lastOp.before.maxCalls)
     => (lastOp.threw /\ ~lastOp.sent /\ llmAttempts = lastOp.attemptsBefore)

C4_Witness ==
  /\ lastOp.op = "consume"
  /\ lastOp.before.maxCalls > 0
  /\ lastOp.attemptsBefore = lastOp.before.maxCalls
  /\ lastOp.sectionId # Undefined
  /\ ~PerUnitConsumed(lastOp.before, lastOp.sectionId)
  /\ lastOp.threw

(* C5: callsUsed and every perSection entry never decrease, whatever the     *)
(* outcome of a request; only initErrorCorrectionBudget sets them back to 0. *)
C5_CountersMonotone ==
  [][\/ /\ B'.callsUsed >= B.callsUsed
        /\ \A u \in Units : B'.perSection[u] >= B.perSection[u]
     \/ /\ lastOp'.op = "init"
        /\ B'.callsUsed = 0
        /\ \A u \in Units : B'.perSection[u] = 0]_vars

C5_Witness ==
  /\ lastOp.op = "consume"
  /\ lastOp.threw
  /\ lastOp.before.callsUsed > 0
  /\ \E u \in Units : B.perSection[u] > 0

(* C33: in every reachable state of the budget callsUsed is at most maxCalls *)
(* and perSection[u] is at most maxPerSection for every unit u, after any    *)
(* sequence of admitted and rejected requests.                               *)
C33_CountersWithinLimits ==
  /\ B.callsUsed <= B.maxCalls
  /\ \A u \in Units : B.perSection[u] <= B.maxPerSection

(* C34: a request rejected because the session limit is reached leaves the   *)
(* per-unit counter of the requesting unit as it was; a unit is charged only *)
(* for a request that was admitted.                                          *)
C34_SessionRejectionChargesNoUnit ==
  (/\ lastOp.op = "consume"
   /\ lastOp.threw
   /\ lastOp.sectionId # Undefined
   /\ ~PerUnitConsumed(lastOp.before, lastOp.sectionId))
  => B.perSection[lastOp.sectionId] = lastOp.before.perSection[lastOp.sectionId]

(* C35: however the correction entry point is called for the code of a unit, *)
(* with the unit id or without it, no unit gets more than maxPerSection      *)
(* admitted attempts in a session.                                           *)
C35_PerUnitLimitAlwaysEnforced ==
  \A u \in Units : admitted[u] <= B.maxPerSection

----------------------------------------------------------------------------
(* Properties of one correction attempt (SpecFix) *)

Settled == fixResult.status # "none" /\ fixResult.reason # "budget"

(* C9: a first response with an unmatched search text is followed by exactly *)
(* one retry request (two requests in the attempt, one when every edit       *)
(* applied); when a retry edit is unmatched too the attempt throws, and the  *)
(* error lists every unmatched search string of the retry.                   *)
C9_OneRetryNamesUnmatched ==
  /\ fix.requests <= 2
  /\ fix.pc = "first" => fix.requests = 1
  /\ fix.pc = "retry" => (fix.requests = 2 /\ fix.firstFailed)
  /\ Settled => fixResult.requests = (IF fixResult.firstFailed THEN 2 ELSE 1)
  /\ (Settled /\ fixResult.retryUnmatched # <<>>)
     => /\ fixResult.status = "threw"
        /\ fixResult.reason = "apply"
        /\ fixResult.names = fixResult.retryUnmatched
  /\ fixResult.reason = "apply" => fixResult.names # <<>>

C9_Witness ==
  /\ fixResult.reason = "apply"
  /\ fixResult.requests = 2
  /\ Len(fixResult.names) = 2
  /\ fixResult.names[1] # fixResult.names[2]

(* C10: code is returned only as sanitize(patched text) and only when the    *)
(* validator finds no error in it; when the validator reports an error the   *)
(* attempt throws and returns no code.                                       *)
ReachedValidation == Settled /\ fixResult.reason \notin {"llm", "apply"}

C10_ReturnedCodeIsValidated ==
  /\ fixResult.status = "returned"
     => /\ fixResult.code = sanitizeSimulationCode(fixResult.patched)
        /\ validateSimulationCode(fixResult.code).errors = {}
  /\ (/\ ReachedValidation
      /\ validateSimulationCode(sanitizeSimulationCode(fixResult.patched)).errors # {})
     => /\ fixResult.status = "threw"
        /\ fixResult.reason = "validation"
        /\ fixResult.code = NoCode
  /\ fixResult.status = "threw" => fixResult.code = NoCode

C10_Witness ==
  /\ fixResult.status = "returned"
  /\ fixResult.code # fixResult.patched
  /\ validateSimulationCode(fixResult.patched).errors # {}

(* the text after the first n edits: an edit replaces every line that is its *)
(* search text, when there is one                                           *)
RECURSIVE TextAfter(_, _, _)
TextAfter(code, edits, n) ==
  IF n = 0 THEN code
  ELSE LET t == TextAfter(code, edits, n - 1)
       IN [i \in 1..Len(t) |->
             IF t[i] = edits[n].old_code[1] THEN edits[n].new_code[1] ELSE t[i]]

(* C37: applySimulationEdits processes the edits in order against the        *)
(* progressively patched text: an edit whose search text is present replaces *)
(* every occurrence of it; an edit whose search text is absent when it is    *)
(* processed leaves the text as it is and is added to failedEdits; edits     *)
(* after a failed one are still applied; failedEdits is empty exactly when   *)
(* every edit found its search text.                                         *)
C37_EditsAppliedInOrder ==
  patch.ran =>
    LET Found(n) == \E i \in 1..Len(patch.code) :
                      TextAfter(patch.code, patch.edits, n - 1)[i]
                        = patch.edits[n].old_code[1]
        failed == {n \in 1..Len(patch.edits) : ~Found(n)}
        Nth(k) == CHOOSE n \in failed : Cardinality({m \in failed : m <= n}) = k
    IN /\ patch.newCode = TextAfter(patch.code, patch.edits, Len(patch.edits))
       /\ Len(patch.failedEdits) = Cardinality(failed)
       /\ \A k \in 1..Len(patch.failedEdits) :
            patch.failedEdits[k] = patch.edits[Nth(k)]
       /\ patch.failedEdits = <<>> <=> \A n \in 1..Len(patch.edits) : Found(n)

(* the first edit did not match, the second one was applied all the same, to *)
(* both lines of the text                                                    *)
C37_Witness ==
  /\ patch.ran
  /\ Len(patch.edits) = 2
  /\ patch.failedEdits = <<patch.edits[1]>>
  /\ Len(patch.code) = 2
  /\ \A i \in 1..2 : patch.newCode[i] # patch.code[i]

(* C36: when some edits of the first response applied and others failed, and *)
(* every edit of the retry response applies, the code the attempt produces   *)
(* holds the effect of the applied edits of the first response as well as    *)
(* the retry's: it is the retry applied to the already patched code.         *)
C36_RetryKeepsFirstEdits ==
  [][(/\ fix.pc = "retry"
      /\ fix.newCode # fix.currentCode
      /\ fixResult'.status # "none"
      /\ fixResult'.reason \notin {"llm", "apply"})
     => \A retryEdits \in Responses :
          (/\ Unmatched(fix.currentCode, retryEdits) = <<>>
           /\ Unmatched(fix.newCode, retryEdits) = <<>>
           /\ fixResult'.patched \in
                {applySimulationEdits(code, retryEdits).newCode :
                   code \in {fix.currentCode, fix.newCode}})
            => fixResult'.patched =
                 applySimulationEdits(fix.newCode, retryEdits).newCode]_vars

----------------------------------------------------------------------------
(* components/ThreeSandbox *)

(* onError is invoked for a failure of kind k of version v *)
Reported(v, k) == [reports EXCEPT ![v][k] = @ + 1]
CanReport(v, k) == reports[v][k] < ReportCap

(* History is kept for the versions that can still run or report: the code  *)
(* prop and the version whose output is committed                           *)
Alive(sb) == {sb.code.id, sb.live}

Forget(sb) ==
  [sb EXCEPT !.validatedOk = @ \cap Alive(sb),
             !.runs = {run \in @ : run.id \in Alive(sb)}]

ForgetReports(r, sb) ==
  [v \in 1..MaxVersions |->
     IF v \in Alive(sb) THEN r[v] ELSE [k \in Kinds |-> 0]]

(* The parent passes a new code prop *)
CodeChange(valid) ==
  /\ sandbox.code.id < MaxVersions
  /\ LET sb == [sandbox EXCEPT !.code = [id |-> @.id + 1, valid |-> valid],
                               !.dirty = TRUE]
     IN /\ sandbox' = Forget(sb)
        /\ reports' = ForgetReports(reports, sb)
  /\ UNCHANGED <<budgetVars, fixVars, appVars, validatorVars, textVars, loader>>

(* The parent re-renders with the same code: new params, and possibly a new  *)
(* onError identity (handleError follows it, useCallback at line 496)        *)
ParentRerender(newOnError) ==
  /\ sandbox' = [sandbox EXCEPT
                   !.onErrorId = IF newOnError THEN 3 - @ ELSE @,
                   !.dirty = TRUE]
  /\ UNCHANGED <<reports, budgetVars, fixVars, appVars, validatorVars, textVars, loader>>

(* a plausible slip: componentDidUpdate resets on every update *)
RenderFallback_AlwaysResets ==
  /\ sandbox.dirty
  /\ sandbox.hasError
  /\ sandbox' = [sandbox EXCEPT
                   !.dirty = TRUE,
                   !.hasError = FALSE,
                   !.errorReported = FALSE,
                   !.boundaryCode = sandbox.code.id]
  /\ UNCHANGED <<reports, budgetVars, fixVars, appVars, validatorVars, textVars, loader>>

(* SimulationErrorBoundary.render shows the fallback (line 56); commit runs  *)
(* componentDidUpdate (line 49)                                              *)
RenderFallback ==
  /\ sandbox.dirty
  /\ sandbox.hasError
  /\ LET reset == sandbox.boundaryCode # sandbox.code.id
     IN sandbox' = [sandbox EXCEPT
                      !.dirty = reset,
                      !.hasError = ~reset,
                      !.errorReported = IF reset THEN FALSE ELSE @,
                      !.boundaryCode = sandbox.code.id]
  /\ UNCHANGED <<reports, budgetVars, fixVars, appVars, validatorVars, textVars, loader>>

(* GeneratedScene mounts: useState('validating'), fresh refs, returns null   *)
(* (line 481)                                                                *)
RenderMount ==
  /\ sandbox.dirty
  /\ ~sandbox.hasError
  /\ ~sandbox.mounted
  /\ LET sb == [sandbox EXCEPT
                   !.dirty = FALSE,
                   !.pendingEffects = TRUE,
                   !.mounted = TRUE,
                   !.validationState = "validating",
                   !.validationDeps = NoDeps,
                   !.resetDeps = 0,
                   !.useFrameErrorRef = FALSE,
                   !.live = 0,
                   !.handlers = FALSE,
                   !.boundaryCode = sandbox.code.id]
     IN /\ sandbox' = Forget(sb)
        /\ reports' = ForgetReports(reports, sb)
  /\ UNCHANGED <<budgetVars, fixVars, appVars, validatorVars, textVars, loader>>

(* GeneratedScene re-renders while validationState is not 'valid': null      *)
(* (lines 481-487)                                                           *)
RenderGated ==
  /\ sandbox.dirty
  /\ ~sandbox.hasError
  /\ sandbox.mounted
  /\ sandbox.validationState # "valid"
  /\ LET sb == [sandbox EXCEPT
                   !.dirty = FALSE,
                   !.pendingEffects = TRUE,
                   !.live = 0,
                   !.handlers = FALSE,
                   !.boundaryCode = sandbox.code.id]
     IN /\ sandbox' = Forget(sb)
        /\ reports' = ForgetReports(reports, sb)
  /\ UNCHANGED <<budgetVars, fixVars, appVars, validatorVars, textVars, loader>>

(* line 489: validationState is 'valid', the render gate lets the Component  *)
(* of the current code prop through                                          *)
RenderGate(sb) == sb.validationState = "valid"

(* GeneratedScene re-renders and returns <Component/> for the current code   *)
(* prop (useMemo on [code], line 389); the Component runs the generated code *)
(* (line 432).  outcome: what the generated code does in this render.        *)
RenderExecute(outcome) ==
  /\ sandbox.dirty
  /\ ~sandbox.hasError
  /\ sandbox.mounted
  /\ RenderGate(sandbox)
  /\ LET v == sandbox.code.id
         run == [id |-> v, valid |-> sandbox.code.valid,
                 validated |-> v \in sandbox.validatedOk]
         ran == [sandbox EXCEPT
                   !.dirty = FALSE,
                   !.fired = sandbox.useFrameErrorRef,   \* line 430
                   !.runs = @ \cup {run},
                   !.boundaryCode = v]
     IN CASE outcome = "ok" ->
               /\ sandbox' = Forget([ran EXCEPT !.pendingEffects = TRUE,
                                                !.live = v, !.handlers = TRUE])
               /\ reports' = ForgetReports(reports, sandbox')
          [] outcome = "nothing" ->
               \* lines 446-458
               /\ sandbox' = Forget([ran EXCEPT !.pendingEffects = TRUE,
                                                !.live = v, !.handlers = FALSE,
                                                !.useFrameErrorRef = TRUE])
               /\ IF sandbox.useFrameErrorRef
                  THEN reports' = ForgetReports(reports, sandbox')
                  ELSE /\ CanReport(v, "missing")
                       /\ reports' = ForgetReports(Reported(v, "missing"), sandbox')
          [] outcome = "throws" ->
               \* the boundary catches (lines 19-46): GeneratedScene unmounts;
               \* in the commit componentDidUpdate (line 49) runs before
               \* componentDidCatch, and its setState is applied first;
               \* componentDidCatch sets errorReported only when the
               \* committed state had it false (line 37)
               LET reset == sandbox.boundaryCode # v
               IN /\ sandbox' = Forget([ran EXCEPT
                                   !.pendingEffects = FALSE,
                                   !.mounted = FALSE,
                                   !.live = 0, !.handlers = FALSE,
                                   !.hasError = ~reset,
                                   !.dirty = reset,
                                   !.errorReported =
                                      ~(reset /\ sandbox.errorReported)])
                  /\ IF sandbox.errorReported
                     THEN reports' = ForgetReports(reports, sandbox')
                     ELSE /\ CanReport(v, "render")
                          /\ reports' = ForgetReports(Reported(v, "render"), sandbox')
  /\ UNCHANGED <<budgetVars, fixVars, appVars, validatorVars, textVars, loader>>

(* The passive effects of GeneratedScene: the reset effect on [code] (line   *)
(* 327) and the validation effect on [code, onError, onValidationWarnings]   *)
(* (line 333)                                                                *)
FlushEffects ==
  /\ sandbox.pendingEffects
  /\ sandbox.mounted
  /\ LET v == sandbox.code.id
         deps == [code |-> v, onError |-> sandbox.onErrorId]
         resetRuns == sandbox.resetDeps # v
         validationRuns == sandbox.validationDeps # deps
         afterReset == [sandbox EXCEPT
                          !.pendingEffects = FALSE,
                          !.resetDeps = v,
                          !.useFrameErrorRef = IF resetRuns THEN FALSE ELSE @]
     IN IF ~validationRuns
        THEN /\ sandbox' = afterReset
             /\ UNCHANGED reports
        ELSE /\ sandbox' = [afterReset EXCEPT
                              !.validationDeps = deps,
                              !.validationState =
                                 IF sandbox.code.valid THEN "valid" ELSE "invalid",
                              !.validatedOk =
                                 IF sandbox.code.valid THEN @ \cup {v} ELSE @,
                              !.dirty = TRUE]
             /\ IF sandbox.code.valid
                THEN UNCHANGED reports
                ELSE CanReport(v, "validation")
                     /\ reports' = Reported(v, "validation")
  /\ UNCHANGED <<budgetVars, fixVars, appVars, validatorVars, textVars, loader>>

(* The scheduler calls the wrapped useFrame callback (lines 407-425) *)
Frame(throws) ==
  /\ sandbox.live # 0
  /\ IF sandbox.useFrameErrorRef \/ ~throws
     THEN UNCHANGED <<sandbox, reports>>
     ELSE /\ CanReport(sandbox.live, "frame")
          /\ sandbox' = [sandbox EXCEPT !.useFrameErrorRef = TRUE]
          /\ reports' = Reported(sandbox.live, "frame")
  /\ UNCHANGED <<budgetVars, fixVars, appVars, validatorVars, textVars, loader>>

(* An event is dispatched to a wrapped handler (lines 268-280) *)
Event(throws) ==
  /\ sandbox.live # 0
  /\ sandbox.handlers
  /\ IF sandbox.fired \/ ~throws
     THEN UNCHANGED <<sandbox, reports>>
     ELSE /\ CanReport(sandbox.live, "event")
          /\ sandbox' = [sandbox EXCEPT !.fired = TRUE]
          /\ reports' = Reported(sandbox.live, "event")
  /\ UNCHANGED <<budgetVars, fixVars, appVars, validatorVars, textVars, loader>>

NextSandbox ==
  \/ \E valid \in BOOLEAN : CodeChange(valid)
  \/ \E newOnError \in BOOLEAN : ParentRerender(newOnError)
  \/ RenderFallback
  \/ RenderMount
  \/ RenderGated
  \/ \E outcome \in {"ok", "nothing", "throws"} : RenderExecute(outcome)
  \/ FlushEffects
  \/ \E throws \in BOOLEAN : Frame(throws)
  \/ \E throws \in BOOLEAN : Event(throws)

SpecSandbox == Init /\ [][NextSandbox]_vars

(* C1: generated code of a version runs only after the validator judged     *)
(* that version valid; a version with validation errors never runs.         *)
C1_ExecutedOnlyAfterValidated ==
  \A run \in sandbox.runs : run.validated /\ run.valid

(* C2: for one code version, onError is invoked at most once per kind of    *)
(* failure, however often the failure recurs.                               *)
C2_OnErrorOncePerEpisode ==
  \A v \in 1..MaxVersions : \A k \in Kinds : reports[v][k] <= 1

----------------------------------------------------------------------------
(* App: section navigation and handleSimulationError *)

Retry == app.simulationRetryState

RetryState(isRetrying, hasRetried, sectionId, error) ==
  [isRetrying |-> isRetrying, hasRetried |-> hasRetried,
   sectionId |-> sectionId, error |-> error]

Pending(u) == \E r \in inflight : r.unit = u

(* handleLoadSection for a section that has content (lines 396-404) and     *)
(* initializeSectionView (line 331)                                         *)
LoadSection(u) ==
  /\ app.appState = "COURSE_OVERVIEW"
  /\ app' = [app EXCEPT !.appState = "LEARNING_MODE",
                        !.activeSectionId = u,
                        !.activeContent = app.course[u]]
  /\ UNCHANGED <<inflight, issued, budgetVars, fixVars, sandboxVars, validatorVars, textVars, loader>>

(* the back button of the learning view (line 1567) *)
BackToOverview ==
  /\ app.appState = "LEARNING_MODE"
  /\ app' = [app EXCEPT !.appState = "COURSE_OVERVIEW"]
  /\ UNCHANGED <<inflight, issued, budgetVars, fixVars, sandboxVars, validatorVars, textVars, loader>>

(* handleSectionComplete (line 509) *)
CompleteSection ==
  /\ app.appState = "LEARNING_MODE"
  /\ app.activeSectionId # Undefined
  /\ app' = [app EXCEPT !.appState = "COURSE_OVERVIEW",
                        !.activeSectionId = Undefined,
                        !.activeContent = NoContent]
  /\ UNCHANGED <<inflight, issued, budgetVars, fixVars, sandboxVars, validatorVars, textVars, loader>>

(* line 542: a retry was already made for the active section *)
AlreadyRetried(retry, activeSectionId) ==
  retry.hasRetried /\ retry.sectionId = activeSectionId

(* The correction call of line 583, up to its first await.  It opens with    *)
(* the budget check for the section, as fixSimulationCodeWithPatch does at   *)
(* line 2670, and sends the request when the check passes.                   *)
generateInteractiveCodeErrorCorrection(sectionId) == ConsumeStep(sectionId, sectionId)

(* handleSimulationError (lines 529-594), called by the sandbox shown in the *)
(* learning view, up to the await of line 583; a call rejected by the budget *)
(* is caught at line 628 before anything else runs                           *)
ReportFailure ==
  /\ app.appState = "LEARNING_MODE"
  /\ app.activeSectionId # Undefined
  /\ app.activeContent # NoContent
  /\ LET u == app.activeSectionId
         report == [op |-> "report", unit |-> u, doneBefore |-> u \in app.done,
                    pendingBefore |-> Pending(u), sent |-> FALSE]
     IN IF AlreadyRetried(Retry, u)
        THEN /\ app' = [app EXCEPT !.last = report]
             /\ UNCHANGED <<inflight, issued, budgetVars>>
        ELSE /\ generateInteractiveCodeErrorCorrection(u)
             /\ IF lastOp'.threw
                THEN /\ app' = [app EXCEPT
                                  !.simulationRetryState =
                                     RetryState(FALSE, TRUE, u, TRUE),
                                  !.last = report]
                     /\ UNCHANGED <<inflight, issued>>
                ELSE /\ app' = [app EXCEPT
                                  !.simulationRetryState =
                                     RetryState(TRUE, FALSE, u, TRUE),
                                  !.last = [report EXCEPT !.sent = TRUE]]
                     /\ inflight' = inflight \cup
                                      {[unit |-> u, n |-> issued[u] + 1,
                                        code |-> app.activeContent]}
                     /\ issued' = [issued EXCEPT ![u] = @ + 1]
  /\ UNCHANGED <<fixVars, sandboxVars, validatorVars, textVars, loader>>

(* a plausible slip: the success path leaves the pending flag set *)
CorrectionArrives_KeepsPending(r) ==
  /\ r \in inflight
  /\ LET correctedConfig == CodeOf(r.unit, r.code.ver + 1)
     IN app' = [app EXCEPT
                  !.course[r.unit] = correctedConfig,
                  !.activeContent = IF @ = NoContent THEN @ ELSE correctedConfig,
                  !.simulationRetryState = RetryState(TRUE, TRUE, r.unit, FALSE),
                  !.done = @ \cup {r.unit},
                  !.last = NoReport]
  /\ inflight' = inflight \ {r}
  /\ UNCHANGED <<issued, budgetVars, fixVars, sandboxVars, validatorVars, textVars, loader>>

(* lines 596-627: the corrected config arrives *)
CorrectionArrives(r) ==
  /\ r \in inflight
  /\ LET correctedConfig == CodeOf(r.unit, r.code.ver + 1)
     IN app' = [app EXCEPT
                  !.course[r.unit] = correctedConfig,
                  !.activeContent = IF @ = NoContent THEN @ ELSE correctedConfig,
                  !.simulationRetryState = RetryState(FALSE, TRUE, r.unit, FALSE),
                  !.done = @ \cup {r.unit},
                  !.last = NoReport]
  /\ inflight' = inflight \ {r}
  /\ UNCHANGED <<issued, budgetVars, fixVars, sandboxVars, validatorVars, textVars, loader>>

(* a plausible slip: the catch block adopts what the attempt produced *)
CorrectionFails_AdoptsPatch(r) ==
  /\ r \in inflight
  /\ app' = [app EXCEPT
               !.course[r.unit] = CodeOf(r.unit, r.code.ver + 1),
               !.simulationRetryState = RetryState(FALSE, TRUE, r.unit, TRUE),
               !.done = @ \cup {r.unit},
               !.last = NoReport]
  /\ inflight' = inflight \ {r}
  /\ UNCHANGED <<issued, budgetVars, fixVars, sandboxVars, validatorVars, textVars, loader>>

(* lines 628-637: the correction call rejects *)
CorrectionFails(r) ==
  /\ r \in inflight
  /\ app' = [app EXCEPT
               !.simulationRetryState = RetryState(FALSE, TRUE, r.unit, TRUE),
               !.done = @ \cup {r.unit},
               !.last = NoReport]
  /\ inflight' = inflight \ {r}
  /\ UNCHANGED <<issued, budgetVars, fixVars, sandboxVars, validatorVars, textVars, loader>>

NextApp ==
  \/ \E u \in Units : LoadSection(u)
  \/ BackToOverview
  \/ CompleteSection
  \/ ReportFailure
  \/ \E r \in inflight : CorrectionArrives(r)
  \/ \E r \in inflight : CorrectionFails(r)

SpecApp == Init /\ [][NextApp]_vars

GivenUp(u) == Retry.hasRetried /\ ~Retry.isRetrying /\ Retry.sectionId = u

C7_OneOutstandingPerUnit ==
  /\ \A u \in Units : Cardinality({r \in inflight : r.unit = u}) <= 1
  /\ (app.last.op = "report" /\ app.last.pendingBefore) => ~app.last.sent

C7_Witness ==
  /\ app.last.op = "report"
  /\ app.last.pendingBefore
  /\ Pending(app.last.unit)

(* C8: a correction response never lands in the displayed content of        *)
(* another unit than the one it was requested for.                          *)
C8_StaleResponseDiscarded ==
  app.activeContent # NoContent => app.activeContent.unit = app.activeSectionId

----------------------------------------------------------------------------
(* Properties of a failed correction attempt (SpecApp) *)

(* the step in which handleSimulationError's catch block runs: the awaited  *)
(* call rejected, or the budget rejected the call at once                   *)
AttemptFails ==
  \/ \E r \in inflight : CorrectionFails(r)
  \/ ReportFailure /\ lastOp' # lastOp /\ lastOp'.threw

FailedUnit == IF inflight' # inflight
              THEN (CHOOSE r \in inflight \ inflight' : TRUE).unit
              ELSE app.activeSectionId

(* C11: a step in which a correction attempt fails (rejected by the budget, *)
(* or the awaited call rejects) leaves the stored code of every unit and    *)
(* the displayed content as they were, clears the pending flag and leaves   *)
(* the error recorded for the unit whose attempt failed.                    *)
C11_FailureKeepsCode ==
  [][AttemptFails =>
       /\ app'.course = app.course
       /\ app'.activeContent = app.activeContent
       /\ ~app'.simulationRetryState.isRetrying
       /\ app'.simulationRetryState.hasRetried
       /\ app'.simulationRetryState.error
       /\ app'.simulationRetryState.sectionId = FailedUnit]_vars

C11_Witness ==
  /\ \E u \in app.done :
       /\ Retry.sectionId = u
       /\ issued[u] = 1
       /\ app.course[u] = CodeOf(u, 0)
  /\ Retry.error
  /\ ~Retry.isRetrying
  /\ inflight = {}

----------------------------------------------------------------------------
(* One unit end to end: App shows section 1 in the learning view, the        *)
(* sandbox renders its interactiveConfig.code (App.tsx lines 1490-1494),     *)
(* onError is handleSimulationError, and setActiveContent re-renders the     *)
(* sandbox with the corrected code                                           *)

E2EUnit == Units \cap {1}

Shown == app.appState = "LEARNING_MODE" /\ app.activeContent # NoContent

(* the code prop the sandbox was last rendered with is older than            *)
(* activeContent.interactiveConfig.code                                      *)
SandboxLags == sandbox.code.id < app.activeContent.ver + 1

(* onError was called for the code on display *)
FailureReported == \E k \in Kinds : reports[sandbox.code.id][k] > 0

E2ELoad == \E u \in E2EUnit : LoadSection(u)

(* App re-renders after setActiveContent: the sandbox gets the corrected     *)
(* code, which passed the validator inside the correction call               *)
E2EAdopt == Shown /\ SandboxLags /\ CodeChange(TRUE)

E2ERender ==
  /\ Shown
  /\ ~SandboxLags
  /\ \/ \E newOnError \in BOOLEAN : ParentRerender(newOnError)
     \/ RenderFallback
     \/ RenderMount
     \/ RenderGated
     \/ \E outcome \in {"ok", "nothing", "throws"} : RenderExecute(outcome)

E2ERun ==
  /\ Shown
  /\ \/ FlushEffects
     \/ \E throws \in BOOLEAN : Frame(throws)
     \/ \E throws \in BOOLEAN : Event(throws)

(* the onError call reaches handleSimulationError *)
E2EReport == Shown /\ ~SandboxLags /\ FailureReported /\ ReportFailure

E2EArrives == \E r \in inflight : CorrectionArrives(r)

E2EFails == \E r \in inflight : CorrectionFails(r)

NextE2E ==
  \/ E2ELoad
  \/ E2EAdopt
  \/ E2ERender
  \/ E2ERun
  \/ E2EReport
  \/ E2EArrives
  \/ E2EFails

SpecE2E == Init /\ [][NextE2E]_vars

(* the request that settles in this step *)
Settling == CHOOSE r \in inflight : r \notin inflight'

(* C12: a failure report that sends a request leaves the unit correcting     *)
(* (pending flag set for it, request in flight); when the corrected config   *)
(* arrives, the unit's stored and displayed code become the corrected code,  *)
(* the pending flag and the error are cleared; and once the sandbox has the  *)
(* corrected code and has rendered, the fallback is shown only if that       *)
(* corrected version itself threw.                                          *)
C12_SuccessPath ==
  [][/\ (ReportFailure /\ inflight' # inflight)
        => /\ app'.simulationRetryState.isRetrying
           /\ app'.simulationRetryState.sectionId = app.activeSectionId
           /\ Cardinality(inflight') = Cardinality(inflight) + 1
     /\ E2EArrives
        => /\ app'.course[Settling.unit] = CodeOf(Settling.unit, Settling.code.ver + 1)
           /\ app'.activeContent = app'.course[Settling.unit]
           /\ ~app'.simulationRetryState.isRetrying
           /\ ~app'.simulationRetryState.error
           /\ \A other \in inflight' : other.unit # Settling.unit
     /\ (sandbox.code.id > 1 /\ ~sandbox.dirty /\ sandbox.hasError)
        => \E run \in sandbox.runs : run.id = sandbox.code.id]_vars

(* the corrected code was adopted and the boundary, which showed the         *)
(* fallback for the crashed version, has just reset                          *)
C12_Witness ==
  /\ \E u \in app.done : app.course[u] = CodeOf(u, 1) /\ app.activeContent = app.course[u]
  /\ ~Retry.isRetrying
  /\ sandbox.code.id = 2
  /\ sandbox.boundaryCode = 2
  /\ ~sandbox.hasError
  /\ ~sandbox.errorReported
  /\ ~sandbox.mounted
  /\ sandbox.dirty

----------------------------------------------------------------------------
(* Properties of the runtime interceptors (SpecSandbox) *)

(* the wrapped useFrame callback of the committed version would call the     *)
(* user callback on the next frame (line 409)                                *)
FrameGateOpen == sandbox.live # 0 /\ ~sandbox.useFrameErrorRef

(* C13: a per-frame exception of a code version is reported once, and while  *)
(* that version is the one on screen its per-frame callback is not called    *)
(* again: the gate of the wrapped callback stays shut for it.                *)
C13_FrameErrorSuppressed ==
  /\ \A v \in 1..MaxVersions : reports[v]["frame"] <= 1
  /\ FrameGateOpen => reports[sandbox.live]["frame"] = 0

RendersNothing == sandbox.live # 0 /\ ~sandbox.handlers

(* C15: whenever the version on screen rendered no output, the missing-      *)
(* return error was reported through onError for that version.              *)
C15_MissingOutputReported ==
  RendersNothing => reports[sandbox.live]["missing"] >= 1

(* C16: an exception thrown by a wrapped event handler is reported at most   *)
(* once during the lifetime of a code version, however often the handler is  *)
(* invoked and however many re-renders happen in between.                    *)
C16_HandlerErrorReportedOnce ==
  \A v \in 1..MaxVersions :
    (v = sandbox.live /\ sandbox.handlers) => reports[v]["event"] <= 1

----------------------------------------------------------------------------
(* utils/codeValidator: validateSimulationCode on programs with nested       *)
(* scopes.  A program is a sequence of statements, one per line, all about   *)
(* the one local name x and the allowlisted name THREE:                      *)
(*   use          x;                                                         *)
(*   useGlobal    THREE;                                                     *)
(*   const        const x = 1;                                               *)
(*   destructure  const { x } = params;                                      *)
(*   default      const { x = 1 } = params;                                  *)
(*   function     function x() {}                                            *)
(*   class        class x {}                                                 *)
(*   param        the head of a nested scope that binds x: (x) => { or       *)
(*                catch (x) {                                                *)
(*   garbage      text the parser rejects even with errorRecovery            *)
(* "in" is the scope a statement stands in: the top level, a nested function *)
(* body or a nested catch body.  Consecutive statements with the same nested *)
(* "in" form one scope, whose parent is the top level.                       *)

MaxStatements == 3

TopLevel == 0           \* the scope id of globalScope

StatementKinds ==
  {"use", "useGlobal", "const", "destructure", "default", "function", "class",
   "param", "garbage"}

ScopeKinds == {"global", "function", "catch"}

Statements ==
  {st \in [kind : StatementKinds, in : ScopeKinds] :
     /\ st.kind = "param" => st.in # "global"
     /\ st.kind = "garbage" => st.in = "global"}

(* the line at which the scope of statement i opens; TopLevel for a          *)
(* statement of the top level                                                *)
RECURSIVE ScopeOf(_, _)
ScopeOf(prog, i) ==
  IF prog[i].in = "global" THEN TopLevel
  ELSE IF i > 1 /\ prog[i - 1].in = prog[i].in /\ prog[i].kind # "param"
       THEN ScopeOf(prog, i - 1)
       ELSE i

Programs == SeqsUpTo(Statements, MaxStatements) \ {<<>>}

(* allScopes (line 283), in the order the traversal enters them *)
allScopes(prog) == {TopLevel} \cup {ScopeOf(prog, i) : i \in 1..Len(prog)}

(* extractParamNames (lines 215-249) on the head of scope s: the Function    *)
(* visitor (lines 298-300) and the catch body (lines 328-332) put the names  *)
(* in functionParams                                                         *)
functionParams(prog, s) ==
  IF s # TopLevel /\ prog[s].kind = "param" THEN {"x"} ELSE {}

(* VariableDeclarator (lines 353-419) and FunctionDeclaration (lines         *)
(* 422-431): the statements that call currentScope.declarations.set.  An     *)
(* object pattern is recorded only when the property value is an Identifier  *)
(* (line 404); no visitor records a class.                                   *)
Declares(st) == st.kind \in {"const", "destructure", "function"}

(* declarations.get(x) of scope s: the line of the last set, 0 when absent *)
declarations(prog, s) ==
  LET lines == {i \in 1..Len(prog) : Declares(prog[i]) /\ ScopeOf(prog, i) = s}
  IN IF lines = {} THEN 0 ELSE SetMax(lines)

(* Identifier (lines 459-489): the scope in which statement i records a      *)
(* usage of x, -1 when it records none.  The identifier of a plain           *)
(* declarator, function or class is skipped (lines 463-472); the value       *)
(* identifier of an object pattern and a parameter are not.  A catch         *)
(* parameter is visited before the catch body is entered, so its usage goes  *)
(* to the enclosing scope.                                                   *)
UsageScope(prog, i) ==
  CASE prog[i].kind \in {"use", "destructure", "default"} -> ScopeOf(prog, i)
    [] prog[i].kind = "param" ->
         IF prog[i].in = "catch" THEN TopLevel ELSE ScopeOf(prog, i)
    [] OTHER -> -1

(* usages.get(x) of scope s, as the set of lines; lines[0] is its minimum *)
usages(prog, s) == {i \in 1..Len(prog) : UsageScope(prog, i) = s}

(* lines 500-518: the walk up the scope chain from scope s *)
RECURSIVE Lookup(_, _)
Lookup(prog, s) ==
  IF declarations(prog, s) > 0
  THEN [isDeclared |-> TRUE, declarationLine |-> declarations(prog, s),
        declarationScope |-> s]
  ELSE IF "x" \in functionParams(prog, s)
       THEN [isDeclared |-> TRUE, declarationLine |-> 0, declarationScope |-> -1]
       ELSE IF s # TopLevel
            THEN Lookup(prog, TopLevel)
            ELSE [isDeclared |-> FALSE, declarationLine |-> 0,
                  declarationScope |-> -1]

(* lines 520-529: the error pushed for scope s, if any *)
UndefinedErrors(prog, s) ==
  IF usages(prog, s) # {} /\ "x" \notin KNOWN_GLOBALS
     /\ ~Lookup(prog, s).isDeclared
  THEN <<[type |-> "undefined", variable |-> "x",
          line |-> SetMin(usages(prog, s))]>>
  ELSE <<>>

(* lines 530-543: the warning pushed for scope s, if any *)
TdzWarnings(prog, s) ==
  LET found == Lookup(prog, s)
      earlyUsages == {u \in usages(prog, s) : u < found.declarationLine}
  IN IF /\ usages(prog, s) # {} /\ "x" \notin KNOWN_GLOBALS
        /\ found.isDeclared
        /\ found.declarationLine > 0
        /\ found.declarationScope = s
        /\ earlyUsages # {}
     THEN <<[variable |-> "x", line |-> SetMin(earlyUsages),
             declared |-> found.declarationLine]>>
     ELSE <<>>

(* lines 493-545: for (const scope of allScopes), from scope s on *)
RECURSIVE AnalyzeFrom(_, _)
AnalyzeFrom(prog, s) ==
  IF s > Len(prog) THEN [errors |-> <<>>, warnings |-> <<>>]
  ELSE IF s \notin allScopes(prog) THEN AnalyzeFrom(prog, s + 1)
       ELSE LET rest == AnalyzeFrom(prog, s + 1)
            IN [errors |-> UndefinedErrors(prog, s) \o rest.errors,
                warnings |-> TdzWarnings(prog, s) \o rest.warnings]

(* parse (lines 263-267) throws on text it cannot recover from *)
Unparseable(prog) == \E i \in 1..Len(prog) : prog[i].kind = "garbage"

(* lines 547-571: the error built from the parser's message *)
SyntaxError(prog) ==
  [type |-> "syntax", variable |-> "",
   line |-> SetMin({i \in 1..Len(prog) : prog[i].kind = "garbage"})]

(* a plausible slip: the scopes are analyzed although the parser threw *)
validateProgram_AnalyzesAnyway(prog) ==
  LET found == AnalyzeFrom(prog, TopLevel)
      errors == IF Unparseable(prog)
                THEN <<SyntaxError(prog)>> \o found.errors
                ELSE found.errors
  IN [valid |-> Len(errors) = 0, errors |-> errors,
      warnings |-> found.warnings, ran |-> TRUE]

(* validateSimulationCode (lines 257-578) on a program *)
validateProgram(prog) ==
  IF Unparseable(prog)
  THEN [valid |-> FALSE, errors |-> <<SyntaxError(prog)>>, warnings |-> <<>>,
        ran |-> TRUE]
  ELSE LET found == AnalyzeFrom(prog, TopLevel)
       IN [valid |-> Len(found.errors) = 0, errors |-> found.errors,
           warnings |-> found.warnings, ran |-> TRUE]

InitValidator ==
  /\ InitBudgetPart /\ InitFixPart /\ InitSandboxPart /\ InitAppPart
  /\ InitTextPart /\ InitLoaderPart
  /\ program \in Programs
  /\ validationResult = NotValidated

Validate ==
  /\ ~validationResult.ran
  /\ validationResult' = validateProgram(program)
  /\ UNCHANGED <<program, budgetVars, fixVars, sandboxVars, appVars, textVars, loader>>

NextValidator == Validate

SpecValidator == InitValidator /\ [][NextValidator]_vars

Validated == validationResult.ran /\ ~Unparseable(program)

(* C17: a program in which every read of a name refers to a name the program *)
(* declares (variable, function, class, parameter, catch parameter,          *)
(* destructured binding with or without a default) or to an allowlisted host *)
(* name is reported valid, with an empty error list.                         *)
C17_DeclaredProgramIsValid ==
  LET binds(i) == program[i].kind \in
                    {"const", "destructure", "default", "function", "class", "param"}
      resolves(i) == \E j \in 1..Len(program) :
                       /\ binds(j)
                       /\ ScopeOf(program, j) \in {ScopeOf(program, i), TopLevel}
  IN (Validated /\ \A i \in 1..Len(program) : program[i].kind = "use" => resolves(i))
       => (validationResult.valid /\ validationResult.errors = <<>>)

(* C18: a name that is read, declared nowhere and not allowlisted gets       *)
(* exactly one undefined-identifier error, citing the line of its first      *)
(* usage, in however many scopes it is read.                                 *)
C18_OneUndefinedError ==
  LET reads == {i \in 1..Len(program) : program[i].kind = "use"}
  IN (Validated /\ reads # {}
        /\ \A i \in 1..Len(program) : program[i].kind \in {"use", "useGlobal"})
       => /\ Len(validationResult.errors) = 1
          /\ validationResult.errors[1].type = "undefined"
          /\ validationResult.errors[1].variable = "x"
          /\ validationResult.errors[1].line = SetMin(reads)

(* C19: a block-scoped name read earlier in the same scope than its          *)
(* declaration gets a TDZ warning citing the earliest such read and no       *)
(* error; the result is valid exactly when its error list is empty, whatever *)
(* the warnings.                                                             *)
C19_TdzIsWarningOnly ==
  LET blockScoped(j) == program[j].kind \in {"const", "destructure", "default", "class"}
      early == {i \in 1..Len(program) :
                  /\ program[i].kind = "use"
                  /\ \E j \in (i + 1)..Len(program) :
                       /\ blockScoped(j)
                       /\ ScopeOf(program, j) = ScopeOf(program, i)
                  /\ ~\E j \in 1..(i - 1) :
                       /\ blockScoped(j)
                       /\ ScopeOf(program, j) = ScopeOf(program, i)}
  IN /\ validationResult.ran
          => (validationResult.valid <=> validationResult.errors = <<>>)
     /\ (Validated /\ early # {})
          => /\ \E w \in 1..Len(validationResult.warnings) :
                  validationResult.warnings[w].line = SetMin(early)
             /\ \A e \in 1..Len(validationResult.errors) :
                  validationResult.errors[e].line \notin early

(* C20: when the parser gives up on the input, the result is invalid and     *)
(* holds exactly one error, of kind syntax: no undefined-identifier error    *)
(* and no warning.                                                           *)
C20_UnparseableIsOneSyntaxError ==
  (validationResult.ran /\ Unparseable(program))
    => /\ ~validationResult.valid
       /\ Len(validationResult.errors) = 1
       /\ validationResult.errors[1].type = "syntax"
       /\ validationResult.warnings = <<>>

(* the parser gave up on a program that also reads an undeclared name and    *)
(* reads a constant before its declaration                                   *)
C20_Witness ==
  /\ validationResult.ran
  /\ Unparseable(program)
  /\ \E s \in allScopes(program) : UndefinedErrors(program, s) # <<>>
  /\ validationResult.errors = <<SyntaxError(program)>>

(* C29: in every scope the validator builds, the line recorded for a         *)
(* declared name is the line of its first declaration in that scope; a later *)
(* re-declaration of the name in the same scope does not change it.          *)
C29_FirstDeclarationLineKept ==
  Validated =>
    \A s \in allScopes(program) :
      LET declaring == {i \in 1..Len(program) :
                          Declares(program[i]) /\ ScopeOf(program, i) = s}
      IN declaring # {} => declarations(program, s) = SetMin(declaring)

----------------------------------------------------------------------------
(* Properties of the validation effect (SpecSandbox) *)

(* the step runs the body of the validation effect (lines 334-386) *)
ValidatorRuns ==
  /\ sandbox'.validationDeps # sandbox.validationDeps
  /\ sandbox'.validationDeps # NoDeps

(* C25: validation is memoized by the identity of the code version: while    *)
(* the scene stays mounted with the same code (new parameters, a parent      *)
(* re-render that passes a new onError identity) the validator does not run  *)
(* again for that version and its result is not reported again.              *)
C25_ValidationMemoizedByVersion ==
  [][/\ ValidatorRuns => sandbox'.validationDeps.code # sandbox.validationDeps.code
     /\ \A v \in 1..MaxVersions :
          (reports'[v].validation > reports[v].validation)
            => sandbox.validationDeps.code # v]_vars

----------------------------------------------------------------------------
(* services/geminiService: hoistConditionalHooks                            *)
(*                                                                          *)
(* Code text is a sequence of tokens; every token is a piece of source text *)
(* that the scans below treat as a unit and is named by its text.           *)

MaxHoistLen == 4        \* tokens of a text handed to hoistConditionalHooks
MaxIterations == 30     \* the bound of the loop `iterations < 30`

(* `React.${hookName}(` for the hook names, in the order of hookNames *)
search == <<"React.useMemo(", "React.useRef(">>

HoistTokens ==
  {"{", "}", ")", "'", "const g = ",
   "React.useMemo(", "React.useRef(", "useMemo("}

(* what a token adds to the brace depth, and whether it opens a parenthesis *)
BraceDelta(t) ==
  CASE t \in {"{", ", { args: [", ", { "} -> 1
    [] t \in {"}", "] }", " }"} -> -1
    [] OTHER -> 0
OpensParen(t) ==
  t \in {"(", "React.useMemo(", "React.useRef(", "useMemo(",
         "new THREE.BoxGeometry(", "new THREE.MeshBasicMaterial(",
         "React.createElement('boxGeometry'",
         "React.createElement('meshBasicMaterial'"}

(* lines 306-326: depthAt[idx]; a position is inside a string when an odd *)
(* number of quotes precedes it                                           *)
depthAt(result, idx) ==
  LET inStr(i) == Cardinality({j \in 1..(i - 1) : result[j] = "'"}) % 2 = 1
      counted(delta) ==
        Cardinality({j \in 1..idx : BraceDelta(result[j]) = delta /\ ~inStr(j)})
  IN counted(1) - counted(-1)

(* lines 348-367: the position after the parenthesis that closes the call *)
RECURSIVE parenEnd(_, _, _, _)
parenEnd(result, endPos, parenDepth, pInStr) ==
  IF endPos > Len(result) THEN endPos
  ELSE LET c == result[endPos]
       IN IF pInStr
          THEN parenEnd(result, endPos + 1, parenDepth, c # "'")
          ELSE IF c = "'" THEN parenEnd(result, endPos + 1, parenDepth, TRUE)
          ELSE IF OpensParen(c)
               THEN parenEnd(result, endPos + 1, parenDepth + 1, FALSE)
          ELSE IF c = ")"
               THEN IF parenDepth = 1 THEN endPos + 1
                    ELSE parenEnd(result, endPos + 1, parenDepth - 1, FALSE)
          ELSE parenEnd(result, endPos + 1, parenDepth, FALSE)

(* lines 369-371: trailing semicolons and spaces, then one newline *)
RECURSIVE skipTrailing(_, _)
skipTrailing(result, endPos) ==
  IF endPos <= Len(result) /\ result[endPos] \in {";", " "}
  THEN skipTrailing(result, endPos + 1)
  ELSE IF endPos <= Len(result) /\ result[endPos] = "\n" THEN endPos + 1
       ELSE endPos

(* String.prototype.trim on a statement *)
RECURSIVE trim(_)
trim(stmt) ==
  IF stmt = <<>> THEN stmt
  ELSE IF stmt[1] \in {" ", "\n"} THEN trim(Tail(stmt))
  ELSE IF stmt[Len(stmt)] \in {" ", "\n"} THEN trim(SubSeq(stmt, 1, Len(stmt) - 1))
  ELSE stmt

(* the element of a one-element set: binds a value once it is computed *)
Only(S) == CHOOSE x \in S : TRUE

(* lines 329-337: the first hook name with a call at brace depth > 0, and *)
(* the position of its first such call; 0 when there is none              *)
firstNested(result) ==
  LET Nested(n) == {idx \in 1..Len(result) :
                      result[idx] = search[n] /\ depthAt(result, idx) > 0}
      found == {n \in 1..Len(search) : Nested(n) # {}}
  IN IF found = {} THEN 0 ELSE SetMin(Nested(SetMin(found)))

(* lines 328-386: one iteration of the outer loop on the text result; the *)
(* statement around the call is the optional declaration before it, the   *)
(* call up to its closing parenthesis and what skipTrailing adds          *)
scanOnce(result) ==
  Only({IF idx = 0
        THEN [madeChange |-> FALSE, result |-> result, stmt |-> <<>>]
        ELSE Only({Only({[madeChange |-> TRUE,
                          result |-> SubSeq(result, 1, stmtStart - 1)
                                       \o SubSeq(result, endPos, Len(result)),
                          stmt |-> trim(SubSeq(result, stmtStart, endPos - 1))]
                         : endPos \in {skipTrailing(
                                         result, parenEnd(result, idx + 1, 1, FALSE))}})
                   : stmtStart \in {IF idx > 1 /\ result[idx - 1]
                                                    \in {"const g = ", "const THREE = "}
                                    THEN idx - 1 ELSE idx}})
        : idx \in {firstNested(result)}})

(* lines 389-398: hoistedStatements.join('\n') + '\n\n' + result, or result *)
RECURSIVE hoistReturn(_, _)
hoistReturn(hoistedStatements, result) ==
  IF Len(hoistedStatements) = 0 THEN result
  ELSE hoistedStatements[1]
         \o (IF Len(hoistedStatements) = 1 THEN <<"\n", "\n">> ELSE <<"\n">>)
         \o hoistReturn(Tail(hoistedStatements), result)

(* lines 299-387 as a function of the text *)
RECURSIVE hoistLoop(_, _, _, _)
hoistLoop(result, hoistedStatements, madeChange, iterations) ==
  IF madeChange /\ iterations < MaxIterations
  THEN Only({hoistLoop(once.result,
                       IF once.madeChange
                       THEN Append(hoistedStatements, once.stmt)
                       ELSE hoistedStatements,
                       once.madeChange, iterations + 1)
             : once \in {scanOnce(result)}})
  ELSE hoistReturn(hoistedStatements, result)

hoistConditionalHooks(code) == hoistLoop(code, <<>>, TRUE, 0)

(* texts handed to the hoister: every short text, the example              *)
(* `if (x) { const g = useMemo(() => 1, []); }`, a hook inside the callback *)
(* of a hoisted hook, a useRef declaration followed by a useMemo call in    *)
(* one block, and one more nested hook than the loop has iterations         *)
HoistInputs ==
  SeqsUpTo(HoistTokens, MaxHoistLen)
    \cup {<<"{", "const g = ", "useMemo(", ")", ";", "}">>,
          <<"{", "const g = ", "React.useRef(", ")", ";", "React.useMemo(", ")",
            ";", "}">>,
          <<"{", "const g = ", "React.useMemo(", "{", "React.useRef(", ")", "}",
            ")", ";", "}">>,
          <<"{">> \o [i \in 1..(2 * (MaxIterations + 1)) |->
                        IF i % 2 = 1 THEN "React.useRef(" ELSE ")"] \o <<"}">>}

(* hoistConditionalHooks(code) is called: lines 297-300 *)
HoistCall ==
  /\ hoist.pc = "idle"
  /\ \E code \in HoistInputs :
       hoist' = [code |-> code, result |-> code, hoistedStatements |-> <<>>,
                 madeChange |-> TRUE, iterations |-> 0, pc |-> "loop",
                 output |-> <<>>]
  /\ UNCHANGED <<budgetVars, fixVars, sandboxVars, appVars, validatorVars, sanitizer, callVars, loader>>

(* a plausible slip: the loop has no iteration bound *)
HoistIterate_Unbounded ==
  /\ hoist.pc = "loop"
  /\ hoist.madeChange
  /\ \E once \in {scanOnce(hoist.result)} :
        hoist' = [hoist EXCEPT
                    !.result = once.result,
                    !.hoistedStatements =
                       IF once.madeChange THEN Append(@, once.stmt) ELSE @,
                    !.madeChange = once.madeChange,
                    !.iterations = @ + 1]
  /\ UNCHANGED <<budgetVars, fixVars, sandboxVars, appVars, validatorVars, sanitizer, callVars, loader>>

(* lines 302-387: one iteration of `while (madeChange && iterations < 30)` *)
HoistIterate ==
  /\ hoist.pc = "loop"
  /\ hoist.madeChange /\ hoist.iterations < MaxIterations
  /\ \E once \in {scanOnce(hoist.result)} :
        hoist' = [hoist EXCEPT
                    !.result = once.result,
                    !.hoistedStatements =
                       IF once.madeChange THEN Append(@, once.stmt) ELSE @,
                    !.madeChange = once.madeChange,
                    !.iterations = @ + 1]
  /\ UNCHANGED <<budgetVars, fixVars, sandboxVars, appVars, validatorVars, sanitizer, callVars, loader>>

(* lines 389-398: the loop has ended *)
HoistReturn ==
  /\ hoist.pc = "loop"
  /\ ~(hoist.madeChange /\ hoist.iterations < MaxIterations)
  /\ hoist' = [hoist EXCEPT
                 !.pc = "done",
                 !.output = hoistReturn(hoist.hoistedStatements, hoist.result)]
  /\ UNCHANGED <<budgetVars, fixVars, sandboxVars, appVars, validatorVars, sanitizer, callVars, loader>>

NextHoist == HoistCall \/ HoistIterate \/ HoistReturn

(* the text functions are called on their own: no sandbox is mounted *)
InitText ==
  /\ InitBudgetPart /\ InitFixPart /\ InitAppPart
  /\ InitValidatorPart /\ InitTextPart /\ InitLoaderPart
  /\ sandbox = SandboxInit(TRUE)
  /\ reports = [v \in 1..MaxVersions |-> [k \in Kinds |-> 0]]

SpecHoist == InitText /\ [][NextHoist]_vars
SpecEdits == InitText /\ [][NextEdits]_vars
SpecHoistFair == SpecHoist /\ WF_vars(HoistIterate) /\ WF_vars(HoistReturn)

(* C22: running the hoister on its own output changes nothing, and for the   *)
(* example `if (x) { const g = useMemo(() => 1, []); }` the output begins    *)
(* with the hoisted statement, followed by the emptied block.                *)
C22_HoistIsNoOpOnOutput ==
  hoist.pc = "done" =>
    /\ hoistConditionalHooks(hoist.output) = hoist.output
    /\ hoist.code = <<"{", "const g = ", "useMemo(", ")", ";", "}">> =>
         hoist.output = <<"const g = ", "useMemo(", ")", ";", "\n", "\n", "{", "}">>

(* C27: after the hoister has run, no call of a hook, bare or qualified,     *)
(* is left at brace depth > 0.                                               *)
C27_NoNestedHookLeft ==
  hoist.pc = "done" =>
    \A idx \in 1..Len(hoist.output) :
      hoist.output[idx] \in {"React.useMemo(", "React.useRef(", "useMemo("}
        => depthAt(hoist.output, idx) <= 0

(* C28: the hoister terminates: the loop never runs more than its bound of   *)
(* iterations, every iteration either takes one nested call out of the text  *)
(* or finds none and ends the loop, and every call returns.                  *)
C28_HoisterTerminates ==
  /\ [](hoist.iterations <= MaxIterations)
  /\ [][hoist'.iterations # hoist.iterations =>
          \/ /\ hoist'.madeChange
             /\ Len(hoist'.result) < Len(hoist.result)
             /\ Len(hoist'.hoistedStatements) = Len(hoist.hoistedStatements) + 1
          \/ /\ ~hoist'.madeChange
             /\ hoist'.result = hoist.result
             /\ hoist'.hoistedStatements = hoist.hoistedStatements]_vars
  /\ (hoist.pc = "loop") ~> (hoist.pc = "done")

(* the loop was ended by its bound while nested calls were still found *)
C28_Witness ==
  /\ hoist.pc = "done"
  /\ hoist.iterations = MaxIterations
  /\ hoist.madeChange

(* C38: the hoisted statements are prepended in the order in which they      *)
(* stand in the source text: a hoisted statement never comes before another  *)
(* hoisted statement that preceded it in the source.                         *)
C38_HoistedInSourceOrder ==
  hoist.pc = "done" =>
    LET hs == hoist.hoistedStatements
        At(stmt) == {i \in 1..(Len(hoist.code) - Len(stmt) + 1) :
                       SubSeq(hoist.code, i, i + Len(stmt) - 1) = stmt}
    IN \A i, j \in 1..Len(hs) :
         (i < j /\ hs[i] # hs[j] /\ At(hs[i]) # {} /\ At(hs[j]) # {})
           => SetMin(At(hs[i])) < SetMin(At(hs[j]))

----------------------------------------------------------------------------
(* services/geminiService: sanitizeSimulationCode on token texts            *)
(*                                                                          *)
(* The rules that rewrite constructor calls and hooks are modelled: shadow  *)
(* stripping, the hoister, the geometry conversion and the material         *)
(* conversion.  The other rules (Unicode table, createElement reversal,     *)
(* setFromPoints, computeBoundingSphere) rewrite only text that holds none  *)
(* of the tokens below.                                                     *)

MaxSanitizeLen == 4     \* tokens of a text handed to sanitizeSimulationCode

SanitizeTokens ==
  {"new THREE.BoxGeometry(", "new THREE.MeshBasicMaterial(", ")", "1",
   "const g = ", "const THREE = ", "return ", "=> ", "{", "}", "React.useRef("}

(* lines 409-474: a line that starts with an import or with a direct        *)
(* redeclaration of a provided variable becomes the empty line              *)
RECURSIVE stripShadows(_, _, _)
stripShadows(text, lineStart, dropping) ==
  IF text = <<>> THEN <<>>
  ELSE LET t == text[1]
       IN IF t = "\n" THEN <<t>> \o stripShadows(Tail(text), TRUE, FALSE)
          ELSE IF dropping THEN stripShadows(Tail(text), FALSE, TRUE)
          ELSE IF lineStart /\ t \in {"import ", "const THREE = "}
               THEN stripShadows(Tail(text), FALSE, TRUE)
          ELSE <<t>> \o stripShadows(Tail(text), lineStart /\ t = " ", FALSE)

(* a plausible slip: the stored/returned check is missing *)
isStored_Never(text, idx) == FALSE

(* lines 524-531: lookBack ends with `=`, `=>` or `return` and white space *)
isStored(text, idx) ==
  LET before == {j \in 1..(idx - 1) : text[j] \notin {" ", "\n"}}
  IN /\ before # {}
     /\ text[SetMax(before)]
          \in {"= ", "=> ", "return ", "const g = ", "const THREE = "}

(* lines 504-549 (kind = "geometry") and 665-704 (kind = "material"): the   *)
(* constructor calls from startIdx on are replaced by createElement calls   *)
RECURSIVE convert(_, _, _)
convert(sanitized, startIdx, kind) ==
  LET prefix == IF kind = "geometry" THEN "new THREE.BoxGeometry("
                ELSE "new THREE.MeshBasicMaterial("
      element == IF kind = "geometry" THEN "React.createElement('boxGeometry'"
                 ELSE "React.createElement('meshBasicMaterial'"
      hits == {i \in startIdx..Len(sanitized) : sanitized[i] = prefix}
  IN IF hits = {} THEN sanitized
     ELSE LET idx == SetMin(hits)
              depthAfter(j) ==
                1 + Cardinality({k \in (idx + 1)..j : OpensParen(sanitized[k])})
                  - Cardinality({k \in (idx + 1)..j : sanitized[k] = ")"})
              closed == {j \in (idx + 1)..Len(sanitized) : depthAfter(j) = 0}
              argsEnd == IF closed = {} THEN Len(sanitized) ELSE SetMin(closed)
              argsStr == trim(SubSeq(sanitized, idx + 1, argsEnd - 1))
              noOpen == IF argsStr # <<>> /\ argsStr[1] = "{"
                        THEN Tail(argsStr) ELSE argsStr
              unwrapped == trim(IF noOpen # <<>> /\ noOpen[Len(noOpen)] = "}"
                                THEN SubSeq(noOpen, 1, Len(noOpen) - 1)
                                ELSE noOpen)
              replacement ==
                IF kind = "geometry"
                THEN IF argsStr = <<>> THEN <<element, ")">>
                     ELSE <<element, ", { args: [">> \o argsStr \o <<"] }", ")">>
                ELSE IF unwrapped = <<>> THEN <<element, ")">>
                     ELSE <<element, ", { ">> \o unwrapped \o <<" }", ")">>
          IN IF kind = "geometry" /\ isStored(sanitized, idx)
             THEN convert(sanitized, argsEnd + 1, kind)
             ELSE convert(SubSeq(sanitized, 1, idx - 1) \o replacement
                            \o SubSeq(sanitized, argsEnd + 1, Len(sanitized)),
                          idx + Len(replacement), kind)

(* lines 401-707: the rules in their order *)
sanitizeText(code) ==
  convert(convert(hoistConditionalHooks(stripShadows(code, TRUE, FALSE)),
                  1, "geometry"),
          1, "material")

(* the texts handed to the sanitizer: every call has its closing parenthesis *)
SanitizeInputs ==
  {code \in SeqsUpTo(SanitizeTokens, MaxSanitizeLen) :
     /\ \A i \in 1..Len(code) :
          Cardinality({k \in 1..i : OpensParen(code[k])})
            >= Cardinality({k \in 1..i : code[k] = ")"})
     /\ Cardinality({k \in 1..Len(code) : OpensParen(code[k])})
          = Cardinality({k \in 1..Len(code) : code[k] = ")"})}

(* sanitizeSimulationCode(code) is called and returns *)
Sanitize ==
  /\ ~sanitizer.ran
  /\ \E code \in SanitizeInputs :
       sanitizer' = [code |-> code, output |-> sanitizeText(code), ran |-> TRUE]
  /\ UNCHANGED <<budgetVars, fixVars, sandboxVars, appVars, validatorVars, hoist, callVars, loader>>

NextSanitize == Sanitize

SpecSanitize == InitText /\ [][NextSanitize]_vars

(* C21: the sanitizer is idempotent: sanitizing its output changes nothing. *)
C21_SanitizeIdempotent ==
  sanitizer.ran => sanitizeText(sanitizer.output) = sanitizer.output

(* C23: every inline geometry constructor call, one not directly preceded   *)
(* by an assignment, an arrow or a return, is rewritten to the              *)
(* createElement call: for the calls on lines that shadow stripping keeps,  *)
(* the output holds one createElement call per inline call, followed by     *)
(* `{ args: [...] }` or by nothing, and one constructor call per stored     *)
(* call.                                                                    *)
C23_InlineGeometryConverted ==
  LET calls(text) == {i \in 1..Len(text) : text[i] = "new THREE.BoxGeometry("}
      kept == stripShadows(sanitizer.code, TRUE, FALSE)
      stored == {i \in calls(kept) :
                   i > 1 /\ kept[i - 1] \in {"const g = ", "const THREE = ",
                                             "return ", "=> "}}
      elements == {i \in 1..Len(sanitizer.output) :
                     sanitizer.output[i] = "React.createElement('boxGeometry'"}
  IN sanitizer.ran =>
       /\ Cardinality(elements) = Cardinality(calls(kept) \ stored)
       /\ Cardinality(calls(sanitizer.output)) = Cardinality(stored)
       /\ \A i \in elements : sanitizer.output[i + 1] \in {", { args: [", ")"}

(* C24 as stated: every geometry constructor call directly preceded by an   *)
(* assignment, an arrow or a return is still a constructor call in the      *)
(* output of the whole pipeline.                                            *)
C24_StoredGeometryKept_Original ==
  LET calls(text) == {i \in 1..Len(text) : text[i] = "new THREE.BoxGeometry("}
      stored == {i \in calls(sanitizer.code) :
                   i > 1 /\ sanitizer.code[i - 1]
                              \in {"const g = ", "const THREE = ", "return ", "=> "}}
  IN sanitizer.ran =>
       Cardinality(calls(sanitizer.output)) >= Cardinality(stored)

(* C24: every geometry constructor call directly preceded by an assignment, *)
(* an arrow or a return, on a line that shadow stripping keeps, is still a  *)
(* constructor call in the output of the whole pipeline.                    *)
C24_StoredGeometryKept ==
  LET calls(text) == {i \in 1..Len(text) : text[i] = "new THREE.BoxGeometry("}
      kept == stripShadows(sanitizer.code, TRUE, FALSE)
      stored == {i \in calls(kept) :
                   i > 1 /\ kept[i - 1] \in {"const g = ", "const THREE = ",
                                             "return ", "=> "}}
  IN sanitizer.ran =>
       Cardinality(calls(sanitizer.output)) >= Cardinality(stored)

(* a returned call went through the pipeline and is still a constructor call *)
C24_Witness ==
  /\ sanitizer.ran
  /\ \E i \in 2..Len(sanitizer.code) :
       /\ sanitizer.code[i] = "new THREE.BoxGeometry("
       /\ sanitizer.code[i - 1] = "return "
  /\ \E i \in 2..Len(sanitizer.output) :
       /\ sanitizer.output[i] = "new THREE.BoxGeometry("
       /\ sanitizer.output[i - 1] = "return "

(* C30: a material constructor call directly preceded by an assignment, an  *)
(* arrow or a return, on a line that shadow stripping keeps, is left as a   *)
(* constructor call; only inline calls are rewritten.                       *)
C30_StoredMaterialKept ==
  LET calls(text) == {i \in 1..Len(text) : text[i] = "new THREE.MeshBasicMaterial("}
      kept == stripShadows(sanitizer.code, TRUE, FALSE)
      stored == {i \in calls(kept) :
                   i > 1 /\ kept[i - 1] \in {"const g = ", "const THREE = ",
                                             "return ", "=> "}}
  IN sanitizer.ran =>
       Cardinality(calls(sanitizer.output)) >= Cardinality(stored)

----------------------------------------------------------------------------
(* App: generation of section content.  The sections of a syllabus are all  *)
(* unlocked (line 385); a section holds content (the full SectionContent)   *)
(* and partialContent (slides streamed while its generation runs).          *)

nonLoaderVars == <<budgetVars, fixVars, sandboxVars, appVars, validatorVars, textVars>>

(* a plausible slip: streamed slides count as a complete section *)
allPreviousSectionsComplete_CountsPartial(targetSectionId, currentCourse) ==
  \A s \in CourseSections :
    s < targetSectionId
      => (currentCourse[s].content \/ currentCourse[s].partialContent)

(* lines 205-209 *)
allPreviousSectionsComplete(targetSectionId, currentCourse) ==
  \A s \in CourseSections : s < targetSectionId => currentCourse[s].content

InFlight(l, s) == l.fetching[s].prefetch + l.fetching[s].load

RECURSIVE InFlightUpTo(_, _)
InFlightUpTo(l, s) == IF s = 0 THEN 0 ELSE InFlight(l, s) + InFlightUpTo(l, s - 1)

(* the model follows at most MaxFetches running generations *)
CanFetch(l) == InFlightUpTo(l, MaxCourseSections) < MaxFetches

(* setGeneratingSections(add) followed by Gemini.fetchFullSectionData, up   *)
(* to its await (lines 228-250 and 423-437)                                 *)
StartFetch(l, s, by) ==
  [l EXCEPT !.generatingSections = @ \cup {s},
            !.fetching[s][by] = @ + 1,
            !.prefetchPending = TRUE]

(* handleStart (lines 367-381) and the result of generateSyllabus (lines    *)
(* 383-394)                                                                 *)
handleStart ==
  /\ loader.appState = "IDLE"
  /\ loader' = [loader EXCEPT !.appState = "GENERATING_SYLLABUS"]
  /\ UNCHANGED nonLoaderVars

SyllabusSettles(ok) ==
  /\ loader.appState = "GENERATING_SYLLABUS"
  /\ loader' =
       IF ok
       THEN [loader EXCEPT
               !.course = [s \in CourseSections |->
                             [content |-> FALSE, partialContent |-> FALSE]],
               !.appState = "COURSE_OVERVIEW",
               !.prefetchPending = TRUE]
       ELSE [loader EXCEPT !.appState = "IDLE"]
  /\ UNCHANGED nonLoaderVars

(* the button of the course overview that leaves the course (line 1318) *)
ExitCourse ==
  /\ loader.appState = "COURSE_OVERVIEW"
  /\ loader' = [loader EXCEPT !.appState = "IDLE",
                              !.course = NoCourse,
                              !.generatingSections = {},
                              !.prefetchPending = TRUE]
  /\ UNCHANGED nonLoaderVars

(* the prefetch effect on [course, generatingSections, ...] (lines 214-317) *)
(* up to the await of prefetchNext                                          *)
prefetchNext ==
  /\ loader.prefetchPending
  /\ LET course == loader.course
         candidates ==
           IF course = NoCourse THEN {}
           ELSE {s \in CourseSections :
                   /\ ~course[s].content
                   /\ s \notin loader.generatingSections
                   /\ allPreviousSectionsComplete(s, course)}
     IN IF candidates = {}
        THEN loader' = [loader EXCEPT !.prefetchPending = FALSE]
        ELSE LET nextSectionToFetch == SetMin(candidates)
             IN /\ CanFetch(loader)
                /\ loader' = StartFetch(loader, nextSectionToFetch, "prefetch")
  /\ UNCHANGED nonLoaderVars

(* handleLoadSection up to its await (lines 396-437); the section list is   *)
(* shown in the course overview (line 1447)                                 *)
handleLoadSection(section) ==
  /\ loader.appState = "COURSE_OVERVIEW"
  /\ loader.course # NoCourse
  /\ LET active == [loader EXCEPT !.activeSectionId = section]
         loading == [active EXCEPT !.appState = "LOADING_SECTION"]
     IN IF loader.course[section].content
        THEN loader' = [active EXCEPT !.appState = "LEARNING_MODE"]
        ELSE IF \/ ~allPreviousSectionsComplete(section, loader.course)
                \/ section \in loader.generatingSections
             THEN loader' = loading
             ELSE /\ CanFetch(loader)
                  /\ loader' = StartFetch(loading, section, "load")
  /\ UNCHANGED nonLoaderVars

(* the slides callback of a running generation (lines 254-263, 443-452) *)
FetchPartial(s) ==
  /\ InFlight(loader, s) > 0
  /\ loader.course # NoCourse
  /\ loader' = [loader EXCEPT !.course[s].partialContent = TRUE,
                              !.prefetchPending = TRUE]
  /\ UNCHANGED nonLoaderVars

(* fetchFullSectionData settles: lines 294-312 for the prefetcher, lines    *)
(* 482-506 for handleLoadSection                                            *)
FetchSettles(s, by, ok) ==
  /\ loader.fetching[s][by] > 0
  /\ LET settled == [loader EXCEPT !.fetching[s][by] = @ - 1,
                                   !.generatingSections = @ \ {s},
                                   !.prefetchPending = TRUE]
     IN loader' =
          IF ok
          THEN IF loader.course = NoCourse THEN settled
               ELSE [settled EXCEPT
                       !.course[s] = [content |-> TRUE, partialContent |-> FALSE]]
          ELSE IF by = "load"
               THEN [settled EXCEPT !.appState = "COURSE_OVERVIEW"]
               ELSE settled
  /\ UNCHANGED nonLoaderVars

(* the effect that watches the active section (lines 322-329) *)
MonitorActiveSection ==
  /\ loader.appState = "LOADING_SECTION"
  /\ loader.activeSectionId # Undefined
  /\ loader.course # NoCourse
  /\ loader.course[loader.activeSectionId].content
  /\ loader' = [loader EXCEPT !.appState = "LEARNING_MODE"]
  /\ UNCHANGED nonLoaderVars

(* handleSectionComplete (lines 509-523) *)
handleSectionComplete ==
  /\ loader.appState = "LEARNING_MODE"
  /\ loader.course # NoCourse
  /\ loader.activeSectionId # Undefined
  /\ loader' = [loader EXCEPT !.appState = "COURSE_OVERVIEW",
                              !.activeSectionId = Undefined,
                              !.prefetchPending = TRUE]
  /\ UNCHANGED nonLoaderVars

NextLoader ==
  \/ handleStart
  \/ \E ok \in BOOLEAN : SyllabusSettles(ok)
  \/ ExitCourse
  \/ prefetchNext
  \/ \E section \in CourseSections : handleLoadSection(section)
  \/ \E s \in CourseSections : FetchPartial(s)
  \/ \E s \in CourseSections, by \in {"prefetch", "load"}, ok \in BOOLEAN :
       FetchSettles(s, by, ok)
  \/ MonitorActiveSection
  \/ handleSectionComplete

SpecLoader == InitText /\ [][NextLoader]_vars

(* C26: sections are generated in order: a generation is started for a       *)
(* section only when every section with a smaller id holds its full content, *)
(* and never for a section that already holds content.                       *)
C26_SectionsGeneratedInOrder ==
  [][\A s \in CourseSections :
       InFlight(loader', s) > InFlight(loader, s)
         => /\ loader.course # NoCourse
            /\ \A p \in 1..(s - 1) : loader.course[p].content
            /\ ~loader.course[s].content]_vars

(* handleLoadSection started the generation of section 2 after section 1    *)
(* got its content                                                          *)
C26_Witness ==
  /\ loader.course # NoCourse
  /\ loader.fetching[2].load > 0
  /\ 2 \in loader.generatingSections
  /\ loader.course[1].content
  /\ ~loader.course[2].content

----------------------------------------------------------------------------
(* components/ThreeSandbox: safeCreateElement *)

(* A value is modelled by what safeCreateElement tests on it:               *)
(*   "absent"    the key is missing          "null"     null                *)
(*   "element"   a React element with a string type ($$typeof set)          *)
(*   "geometry"  a THREE.BufferGeometry instance (isBufferGeometry, type)   *)
(*   "material"  a THREE.Material instance (isMaterial, type)               *)
(*   "object3d"  another THREE object with a string type (a Mesh, a Group)  *)
(*   "object"    a plain object without type                                *)
PropValues ==
  {"absent", "null", "element", "geometry", "material", "object3d", "object"}
Truthy(v) == v \notin {"absent", "null"}
IsObject(v) == v \in {"element", "geometry", "material", "object3d", "object"}
HasTypeof(v) == v = "element"
HasStringType(v) == v \in {"element", "geometry", "material", "object3d"}

(* "Component" is a function component, every other type is a string *)
ElementTypes ==
  {"mesh", "line", "lineSegments", "points", "group", "boxGeometry", "Component"}
IsStringType(type) == type # "Component"

GEOMETRY_PROP_TYPES == {"mesh", "line", "lineSegments", "points"}
FRUSTUM_CULL_DISABLED_TYPES == {"mesh", "line", "lineSegments", "points"}

ElementProps ==
  {NoProps} \cup
  [given : {TRUE}, geometry : PropValues, material : PropValues,
   frustumCulled : {"absent", "null", "true", "false"},
   onClick : {"absent", "function", "string"},
   position : {"absent", "value"}]

ElementChildren ==
  {<<>>, <<"text">>, <<"geometry">>, <<"material">>, <<"element">>}

(* lines 203-221: instances passed as children become elements *)
fixChild(child) ==
  IF child \in {"geometry", "material"} THEN "element" ELSE child

fixedChildren(children) ==
  [i \in 1..Len(children) |-> fixChild(children[i])]

(* lines 241-243 and 251-253: the test that moves a prop to a child *)
MovesGeometry(v) ==
  Truthy(v) /\ IsObject(v) /\ v # "geometry" /\ (HasTypeof(v) \/ HasStringType(v))

MovesMaterial(v) ==
  Truthy(v) /\ IsObject(v) /\ v # "material" /\ (HasTypeof(v) \/ HasStringType(v))

(* lines 228-257 *)
fixGeometryProps(type, props) ==
  IF IsStringType(type) /\ type \in GEOMETRY_PROP_TYPES /\ props.given
  THEN LET g == MovesGeometry(props.geometry)
           m == MovesMaterial(props.material)
       IN [fixedProps |-> [props EXCEPT
                             !.geometry = IF g THEN "absent" ELSE @,
                             !.material = IF m THEN "absent" ELSE @],
           propsChildren |-> (IF g THEN <<props.geometry>> ELSE <<>>)
                             \o (IF m THEN <<props.material>> ELSE <<>>)]
  ELSE [fixedProps |-> props, propsChildren |-> <<>>]

(* lines 262-283: function-valued on* props are wrapped while a handler is set *)
wrapHandlers(fixedProps, handlerSet) ==
  IF fixedProps.given /\ handlerSet /\ fixedProps.onClick = "function"
  THEN [fixedProps EXCEPT !.onClick = "wrapped"]
  ELSE fixedProps

(* a plausible slip: the incoming props are spread after the flag *)
forceNoCulling_PropsWin(type, fixedProps) ==
  IF IsStringType(type) /\ type \in FRUSTUM_CULL_DISABLED_TYPES
  THEN [fixedProps EXCEPT !.given = TRUE,
                          !.frustumCulled = IF @ = "absent" THEN "false" ELSE @]
  ELSE fixedProps

(* lines 287-289 *)
forceNoCulling(type, fixedProps) ==
  IF IsStringType(type) /\ type \in FRUSTUM_CULL_DISABLED_TYPES
  THEN [fixedProps EXCEPT !.given = TRUE, !.frustumCulled = "false"]
  ELSE fixedProps

(* lines 201-292 *)
safeCreateElement(type, props, children, handlerSet) ==
  LET fixed == fixGeometryProps(type, props)
  IN [type |-> type,
      props |-> forceNoCulling(type, wrapHandlers(fixed.fixedProps, handlerSet)),
      children |-> fixed.propsChildren \o fixedChildren(children)]

(* generated code calls React.createElement of the SafeReact proxy *)
CreateElement ==
  /\ ~created.ran
  /\ \E type \in ElementTypes, props \in ElementProps,
        children \in ElementChildren, handlerSet \in BOOLEAN :
       created' = [type |-> type, props |-> props, children |-> children,
                   out |-> safeCreateElement(type, props, children, handlerSet),
                   ran |-> TRUE]
  /\ UNCHANGED <<budgetVars, fixVars, sandboxVars, appVars, validatorVars,
                 hoist, sanitizer, patch, hosted, loader>>

NextElements == CreateElement

SpecElements == InitText /\ [][NextElements]_vars

(* C31: for mesh, line, lineSegments and points a geometry or material prop  *)
(* is moved to a child exactly when its value is a declarative element, a    *)
(* geometry or material instance given as a prop stays in the props          *)
(* unchanged, and for every other type the props other than handlers and     *)
(* the culling flag are passed through unchanged.                            *)
C31_OnlyDeclarativePropsMoved ==
  created.ran =>
    LET p == created.props
        o == created.out
        Instance(v) == v \in {"geometry", "material"}
    IN IF created.type \in {"mesh", "line", "lineSegments", "points"}
       THEN p.given =>
              /\ (o.props.geometry = "absent" /\ p.geometry # "absent")
                   <=> p.geometry = "element"
              /\ (o.props.material = "absent" /\ p.material # "absent")
                   <=> p.material = "element"
              /\ Instance(p.geometry) => o.props.geometry = p.geometry
              /\ Instance(p.material) => o.props.material = p.material
              /\ o.props.position = p.position
       ELSE /\ o.props.given = p.given
            /\ o.props.geometry = p.geometry
            /\ o.props.material = p.material
            /\ o.props.position = p.position

(* C32: every element created for mesh, line, lineSegments or points has     *)
(* frustumCulled set to false whatever the incoming props were (null, the    *)
(* key absent, null or true); for every other type the flag is what the      *)
(* caller gave and null props stay null.                                     *)
C32_CullingForcedOff ==
  created.ran =>
    IF created.type \in {"mesh", "line", "lineSegments", "points"}
    THEN created.out.props.given /\ created.out.props.frustumCulled = "false"
    ELSE /\ created.out.props.given = created.props.given
         /\ created.out.props.frustumCulled = created.props.frustumCulled

(* a mesh whose props ask for culling *)
C32_Witness ==
  /\ created.ran
  /\ created.type = "mesh"
  /\ created.props.given
  /\ created.props.frustumCulled = "true"
  /\ created.out.props.frustumCulled = "false"

----------------------------------------------------------------------------
(* components/ThreeSandbox: several sandboxes mounted together.  They share *)
(* the module-level simErrorHandlerRef (line 306); useFrameErrorRef is a    *)
(* ref of each GeneratedScene (line 324).  current = u stands for the       *)
(* onError of sandbox u.  The field fired of a unit is history: what        *)
(* simErrorHandlerRef.fired would hold if the unit had the ref to itself.   *)

nonHostVars ==
  <<budgetVars, fixVars, sandboxVars, appVars, validatorVars,
    hoist, sanitizer, patch, created, loader>>

(* Component of sandbox u renders (lines 402-461) *)
ComponentRender(u, returnsNothing) ==
  LET me == hosted.unit[u]
  IN /\ hosted' = [hosted EXCEPT
           !.simErrorHandlerRef = [current |-> u, fired |-> me.useFrameErrorRef],
           !.unit[u] = [useFrameErrorRef |-> me.useFrameErrorRef \/ returnsNothing,
                        wrapped |-> ~returnsNothing,
                        fired |-> me.useFrameErrorRef]]
     /\ UNCHANGED nonHostVars

(* the code prop of sandbox u changes (lines 327-330, 389-478) *)
HostCodeChange(u) ==
  /\ hosted.unit[u] # UnmountedHost
  /\ hosted' = [hosted EXCEPT !.unit[u] = UnmountedHost]
  /\ UNCHANGED nonHostVars

(* a useFrame callback of sandbox u throws (lines 407-425) *)
HostFrameThrows(u) ==
  /\ hosted.unit[u].wrapped
  /\ ~hosted.unit[u].useFrameErrorRef
  /\ hosted' = [hosted EXCEPT !.unit[u].useFrameErrorRef = TRUE]
  /\ UNCHANGED nonHostVars

(* an event handler of an element of sandbox u throws (lines 268-280) *)
WrappedHandlerThrows(u) ==
  LET ref == hosted.simErrorHandlerRef
      report == ~ref.fired /\ ref.current # NoHandler
  IN /\ hosted.unit[u].wrapped
     /\ hosted' = [hosted EXCEPT
           !.simErrorHandlerRef.fired = @ \/ report,
           !.unit[u].fired = TRUE,
           !.last = [unit |-> u,
                     reportedTo |-> IF report THEN ref.current ELSE NoHandler,
                     ownFired |-> hosted.unit[u].fired]]
     /\ UNCHANGED nonHostVars

NextHosts ==
  \/ \E u \in Hosts, returnsNothing \in BOOLEAN : ComponentRender(u, returnsNothing)
  \/ \E u \in Hosts : HostCodeChange(u)
  \/ \E u \in Hosts : HostFrameThrows(u)
  \/ \E u \in Hosts : WrappedHandlerThrows(u)

SpecHosts == InitText /\ [][NextHosts]_vars

(* C39: with several sandboxes mounted, an exception thrown by an event      *)
(* handler of one sandbox is reported to the onError of that sandbox, and    *)
(* it is dropped only when that sandbox itself has reported already; what    *)
(* another sandbox rendered or reported neither redirects nor suppresses it. *)
C39_ReportStaysWithItsUnit ==
  hosted.last.unit # NoHandler
    => hosted.last.reportedTo =
         IF hosted.last.ownFired THEN NoHandler ELSE hosted.last.unit

----------------------------------------------------------------------------
(* Properties of the generation of section content (SpecLoader) *)

(* C40: no section has two generations in flight at the same time, and the  *)
(* prefetcher does not go on restarting a generation that fails: a          *)
(* behaviour in which generations started by the prefetcher fail again and  *)
(* again is one in which the user acts again and again.                     *)
C40_OneGenerationPerSection ==
  /\ [](\A s \in CourseSections :
          loader.fetching[s].prefetch + loader.fetching[s].load <= 1)
  /\ \/ []<><<\/ handleStart
              \/ ExitCourse
              \/ \E section \in CourseSections : handleLoadSection(section)
              \/ handleSectionComplete>>_vars
     \/ <>[][~(\E s \in CourseSections : FetchSettles(s, "prefetch", FALSE))]_vars

====
